---- MODULE Spec2Model ----
(***************************************************************************)
(* Model of matheus1lva/ethvalidator: the TTL cache (pkg/cache/memory.go), *)
(* the beacon client's oracle (pkg/ethereum/client.go) and the resolution  *)
(* service (internal/service/validator.go).                                *)
(*                                                                         *)
(* Time is an integer clock `now` (offset from process start); every       *)
(* time.Now() of the code reads it.  Each MemoryCache method runs its      *)
(* whole body under c.mu, so a method is one atomic action.                *)
(***************************************************************************)
EXTENDS Integers, Sequences, FiniteSets, TLC

\* ------------------------------------------------------------------ bounds
MaxTime == 3
MaxTTL == 2
MaxCap == 2

\* keys and values the direct callers of the cache use ("" is a legal key)
CacheKeys == {"", "a", "b"}
CacheValues == {[kind |-> "opaque", id |-> "x"], [kind |-> "opaque", id |-> "y"]}
Nil == [kind |-> "nil"]

VARIABLES
    items,        \* MemoryCache.items : key -> cacheItem
    ttl,          \* MemoryCache.ttl
    maxSize,      \* MemoryCache.maxSize
    stopChan,     \* MemoryCache.stopChan : "open" | "closed"
    reaper,       \* position of the cleanupExpired goroutine
    tickPending,  \* a tick is buffered in ticker.C
    nextTick,     \* time of the ticker's next tick (-1: no ticker)
    now,          \* the clock
    panicked,     \* "" or the message of the panic that ended the process
    ret,          \* what the last cache call returned
    setAt,        \* per key: time of the Set that stored its entry (-1: none stored)
    pc,           \* per request worker: where its resolution stands
    call,         \* per worker: [op, slot] of the resolution it runs
    cur,          \* per worker: currentSlot as the oracle returned it (-1: not yet)
    blk,          \* per worker: the block GetBlockBySlot returned
    out,          \* per worker: what the resolution returned, [value, err]
    trace,        \* per worker: the cache and client calls issued so far
    last,         \* the service's most recent cache fill, [key, value]
    arg,          \* the function under test and its argument
    res,          \* what that function returned
    mu,           \* MemoryCache.mu : [readerCount, w] of the sync.RWMutex
    thr,          \* per goroutine using the cache: where it is in which method
    http,         \* per worker: the request it serves, the response written
                  \* and the error the handler logged
    req,          \* per worker: the endpoint of the beacon request it issued
                  \* last ("": none yet)
    svc,          \* the validatorService: the collaborators it was built
                  \* from, and how NewValidatorService ended
    node,         \* the beacon node's answer to each request when the node
                  \* is deterministic (AnyNode: it may answer anything)
    mw            \* one request in the Timeout middleware: where the
                  \* middleware and the handler goroutine are, the deadline,
                  \* the responseWriter's fields and the writes that reached
                  \* the writer below it

cacheVars == <<items, ttl, maxSize, stopChan, reaper, tickPending, nextTick,
               now, panicked, ret, setAt>>
fnVars == <<arg, res>>
lockVars == <<mu, thr>>
svcVars == <<pc, call, cur, blk, out, trace, last, fnVars, lockVars, http, req,
             svc, node, mw>>
vars == <<cacheVars, svcVars>>

\* ----------------------------------------------------- service constants
\* the request workers (one goroutine per inbound request); requests that
\* arrive one after the other are all served by the workers of Sequential
Workers == {"w1", "w2"}
Sequential == {"w1"}

SlotsPerEpoch == 32
EpochsPerPeriod == 256
SecondsPerSlot == 12

\* Unix time, in seconds, of the instant now = 0
UnixBase == 24

\* the slots callers ask for: one at most one past the current slot, and the
\* same a sync-committee period further
Slots == {2, 2 + SlotsPerEpoch * EpochsPerPeriod}
Ops == {"block_reward", "sync_duties"}

NoCall == [op |-> "none", slot |-> 0]
NoBlock == [hasPayload |-> FALSE, feeRecipient |-> <<>>, transactions |-> <<>>]
NoOut == [value |-> Nil, err |-> <<>>]
NoLast == [key |-> "", value |-> Nil]
NoArg == [fn |-> "none"]
NoHttp == [path |-> <<>>, status |-> 0, body |-> <<>>, calls |-> 0,
           logged |-> <<>>]

\* the goroutines that use one MemoryCache at the same time: two callers and
\* the cache's own cleanupExpired goroutine
Callers == {"t1", "t2"}
Threads == Callers \cup {"reaper"}
NoThr == [at |-> "idle", method |-> "none", key |-> ""]
NoRes == [fn |-> "none"]
AnyNode == [kind |-> "any"]
NoRequest == [at |-> "idle", inner |-> "none", deadline |-> -1, code |-> 0,
              sawHeader |-> [g \in {"timeout", "inner"} |-> FALSE],
              wroteHeader |-> FALSE, status |-> 0, sent |-> <<>>]

\* ------------------------------------------------------------- pkg/errors
\* An error is its chain, outermost first: fmt.Errorf("...: %w", err) puts a
\* layer in front of err's chain; nil is the empty chain.
ErrSlotNotFound == "slot not found"
ErrFutureSlot == "requested slot is in the future"
ErrSlotTooFarInFuture == "requested slot is too far in the future"
ErrInvalidSlot == "invalid slot number"
ErrTimeout == "request timeout"
ErrInternal == "internal server error"

Wrap(msg, err) == <<msg>> \o err

\* errors.Is(err, target): some layer of the chain is the sentinel
Is(err, target) == \E i \in DOMAIN err : err[i] = target

IsNotFound(err) == Is(err, ErrSlotNotFound)

IsBadRequest(err) ==
    \/ Is(err, ErrFutureSlot)
    \/ Is(err, ErrInvalidSlot)
    \/ Is(err, ErrSlotTooFarInFuture)

IsTimeout(err) == Is(err, ErrTimeout)

\* ---------------------------------------------------------------- strings
\* A Go string is the sequence of its characters.
Digits == <<"0", "1", "2", "3", "4", "5", "6", "7", "8", "9">>
UpperCase == <<"A", "B", "C", "D", "E", "F", "G", "H", "I", "J", "K", "L", "M",
               "N", "O", "P", "Q", "R", "S", "T", "U", "V", "W", "X", "Y", "Z">>
LowerCase == <<"a", "b", "c", "d", "e", "f", "g", "h", "i", "j", "k", "l", "m",
               "n", "o", "p", "q", "r", "s", "t", "u", "v", "w", "x", "y", "z">>

IsDigit(c) == \E i \in DOMAIN Digits : Digits[i] = c
DigitValue(c) == (CHOOSE i \in DOMAIN Digits : Digits[i] = c) - 1

\* strings.ToLower
ToLower(str) ==
    [i \in DOMAIN str |->
        IF \E j \in DOMAIN UpperCase : UpperCase[j] = str[i]
        THEN LowerCase[CHOOSE j \in DOMAIN UpperCase : UpperCase[j] = str[i]]
        ELSE str[i]]

\* strings.HasPrefix
HasPrefix(str, prefix) ==
    /\ Len(str) >= Len(prefix)
    /\ SubSeq(str, 1, Len(prefix)) = prefix

\* the value of a string of decimal digits
RECURSIVE DecimalValue(_)
DecimalValue(ds) ==
    IF ds = <<>> THEN 0
    ELSE 10 * DecimalValue(SubSeq(ds, 1, Len(ds) - 1)) + DigitValue(ds[Len(ds)])

\* the longest prefix of str made of digits
RECURSIVE DigitPrefix(_)
DigitPrefix(str) ==
    IF str = <<>> \/ ~IsDigit(Head(str)) THEN <<>>
    ELSE <<Head(str)>> \o DigitPrefix(Tail(str))

\* ------------------------------------------- validatorService.parseReward
\* new(big.Int).SetString(rewardStr, 10): an optional sign, then one or more
\* decimal digits, and nothing else
parseReward(rewardStr) ==
    LET signed == rewardStr # <<>> /\ Head(rewardStr) \in {"+", "-"}
        body == IF signed THEN Tail(rewardStr) ELSE rewardStr
        ok == body # <<>> /\ \A i \in DOMAIN body : IsDigit(body[i])
    IN IF ~ok
       THEN [value |-> 0, err |-> <<"invalid reward format">>]
       ELSE [value |-> IF signed /\ Head(rewardStr) = "-"
                       THEN 0 - DecimalValue(body) ELSE DecimalValue(body),
             err |-> <<>>]

\* ------------------------------------ validatorService.isMEVTransaction
mevPatterns == <<
    <<"0", "x", "a", "2", "2", "c", "b", "4", "6", "5">>,
    <<"0", "x", "0", "9", "5", "e", "a", "7", "b", "3">>,
    <<"0", "x", "2", "3", "b", "8", "7", "2", "d", "d">>>>

isMEVTransaction(txHex) ==
    IF Len(txHex) < 10 THEN FALSE
    ELSE \E i \in DOMAIN mevPatterns : HasPrefix(txHex, mevPatterns[i])

\* ---------------------------------- validatorService.determineBlockStatus
knownMEVRelays == <<
    <<"0", "x", "9", "5", "2", "2", "2", "2", "9", "0", "d", "d", "7",
      "2", "7", "8", "a", "a", "3", "d", "d", "d", "3", "8", "9", "c",
      "c", "1", "e", "1", "d", "1", "6", "5", "c", "c", "4", "b", "a",
      "f", "e", "5">>,
    <<"0", "x", "3", "8", "8", "c", "8", "1", "8", "c", "a", "8", "b",
      "9", "2", "5", "1", "b", "3", "9", "3", "1", "3", "1", "c", "0",
      "8", "a", "7", "3", "6", "a", "6", "7", "c", "c", "b", "1", "9",
      "2", "9", "7">>,
    <<"0", "x", "8", "b", "5", "d", "7", "a", "6", "0", "5", "5", "e",
      "5", "4", "e", "3", "6", "e", "8", "a", "6", "e", "2", "a", "1",
      "2", "8", "c", "5", "d", "0", "f", "3", "8", "f", "4", "e", "5",
      "e", "8", "3">>>>

determineBlockStatusFirstTransaction(block) ==
    IF ~block.hasPayload THEN "vanilla"
    ELSE IF Len(block.transactions) = 0 THEN "vanilla"
    ELSE IF isMEVTransaction(block.transactions[1]) THEN "mev"
    ELSE IF \E i \in DOMAIN knownMEVRelays :
                ToLower(block.feeRecipient) = knownMEVRelays[i] THEN "mev"
    ELSE "vanilla"

determineBlockStatusCaseSensitive(block) ==
    IF ~block.hasPayload THEN "vanilla"
    ELSE IF Len(block.transactions) = 0 THEN "vanilla"
    ELSE IF \E i \in DOMAIN block.transactions :
                isMEVTransaction(block.transactions[i]) THEN "mev"
    ELSE IF \E i \in DOMAIN knownMEVRelays :
                block.feeRecipient = knownMEVRelays[i] THEN "mev"
    ELSE "vanilla"

determineBlockStatus(block) ==
    IF ~block.hasPayload THEN "vanilla"
    ELSE IF Len(block.transactions) = 0 THEN "vanilla"
    ELSE IF \E i \in DOMAIN block.transactions :
                isMEVTransaction(block.transactions[i]) THEN "mev"
    ELSE IF \E i \in DOMAIN knownMEVRelays :
                ToLower(block.feeRecipient) = knownMEVRelays[i] THEN "mev"
    ELSE "vanilla"

\* ------------------------------------------------- client.doBeaconRequest
\* What the beacon node (or the transport) does with one GET: the error the
\* call returns, nil for a decoded 200.  "deadline": the context's deadline
\* fired while the request was in flight, and httpClient.Do returned the
\* context's error.
BeaconResponses == {"ok", "notfound", "status", "transport", "decode",
                    "deadline"}

doBeaconRequest(resp) ==
    CASE resp = "transport" -> <<"request failed", "transport error">>
      [] resp = "deadline" -> <<"request failed", "context deadline exceeded">>
      [] resp = "notfound" -> <<ErrSlotNotFound>>
      [] resp = "status" -> <<"unexpected status code">>
      [] resp = "decode" -> <<"failed to decode response", "decode error">>
      [] OTHER -> <<>>

\* parseUint64: fmt.Sscanf(s, "%d", &n) reads the leading digits of s
parseUint64(str) ==
    IF DigitPrefix(str) = <<>>
    THEN [value |-> 0, err |-> <<"expected integer">>]
    ELSE [value |-> DecimalValue(DigitPrefix(str)), err |-> <<>>]

\* -------------------------------------------------- client.GetCurrentSlot
\* resp and genesisTime are the node's answer to GET genesis, currentTime is
\* time.Now().Unix()
GetCurrentSlotRoundingUp(resp, genesisTime, currentTime) ==
    LET e == doBeaconRequest(resp)
        g == parseUint64(genesisTime)
    IN IF e # <<>> THEN [slot |-> 0, err |-> e]
       ELSE IF g.err # <<>>
       THEN [slot |-> 0, err |-> Wrap("failed to parse genesis time", g.err)]
       ELSE IF currentTime < g.value
       THEN [slot |-> 0, err |-> <<"current time is before genesis">>]
       ELSE [slot |-> (currentTime - g.value + SecondsPerSlot - 1) \div SecondsPerSlot,
             err |-> <<>>]

GetCurrentSlot(resp, genesisTime, currentTime) ==
    LET e == doBeaconRequest(resp)
        g == parseUint64(genesisTime)
    IN IF e # <<>> THEN [slot |-> 0, err |-> e]
       ELSE IF g.err # <<>>
       THEN [slot |-> 0, err |-> Wrap("failed to parse genesis time", g.err)]
       ELSE IF currentTime < g.value
       THEN [slot |-> 0, err |-> <<"current time is before genesis">>]
       ELSE [slot |-> (currentTime - g.value) \div SecondsPerSlot, err |-> <<>>]

\* ------------------------------------------------ the client's endpoints
\* the endpoint each client call hands to doBeaconRequest
GenesisEndpoint == "genesis"
BlockEndpoint(slot) == "blocks/" \o ToString(slot)
RewardsEndpoint(slot) == "rewards/blocks/" \o ToString(slot)

\* client.GetSyncCommittee: the state of the first slot of the slot's period
SyncCommitteeEndpointOfSlot(slot) ==
    "states/" \o ToString(slot) \o "/sync_committees"

SyncCommitteeEndpoint(slot) ==
    LET epoch == slot \div 32
        syncCommitteePeriod == epoch \div 256
        stateID == ToString(syncCommitteePeriod * 256 * 32)
    IN "states/" \o stateID \o "/sync_committees"

\* ------------------------------------------ what the beacon node can answer
\* genesis times: in the past, one the clock reaches during a run, one in
\* the future, and one that is no number
GenesisTimes == {<<"0">>, <<"1", "2">>, <<"2", "6">>, <<"9", "9">>, <<"x">>}

BlockMev ==
    [hasPayload |-> TRUE,
     feeRecipient |-> <<"0", "x", "1", "2">>,
     transactions |-> <<
        <<"0", "x", "a", "2", "2", "c", "b", "4", "6", "5", "0", "0">>>>]
BlockEmpty ==
    [hasPayload |-> TRUE, feeRecipient |-> <<"0", "x", "1", "2">>,
     transactions |-> <<>>]
Blocks == {BlockMev, BlockEmpty}

\* totals the rewards endpoint can carry: a number, a negative one, no number
Totals == {<<"1", "0">>, <<"-", "1">>, <<"x">>}
Committees == {<<"0xvalidator1", "0xvalidator2">>}

\* ------------------------------------------------------ the service's keys
\* fmt.Sprintf("block_reward:%d", slot) and fmt.Sprintf("sync_duties:%d", slot)
cacheKeyWithoutSlot(op, slot) == op

cacheKeyWithoutOperation(op, slot) == "slot:" \o ToString(slot)

cacheKey(op, slot) == op \o ":" \o ToString(slot)

ServiceKeys == {cacheKey(o, s) : o \in Ops, s \in Slots}

BlockReward(status, reward) ==
    [kind |-> "BlockReward", status |-> status, reward |-> reward]
SyncCommitteeDuties(validators) ==
    [kind |-> "SyncCommitteeDuties", validators |-> validators]
ResultKind(op) ==
    IF op = "block_reward" THEN "BlockReward" ELSE "SyncCommitteeDuties"

\* ------------------------------------------------------- time.Time helpers
\* t.After(u)
After(t, u) == t > u

\* t.Before(u)
Before(t, u) == t < u

\* the map without key k (delete(c.items, k))
RemoveAll(its, k) == <<>>

Remove(its, k) == [j \in (DOMAIN its) \ {k} |-> its[j]]

\* the Set times of the keys the map still holds
StoredSince(sa, its) == [k \in DOMAIN sa |-> IF k \in DOMAIN its THEN sa[k] ELSE -1]

\* the map with its[k] = item
PutUnlessPresent(its, k, item) ==
    [j \in (DOMAIN its) \cup {k} |-> IF j \in DOMAIN its THEN its[j] ELSE item]

Put(its, k, item) == [j \in (DOMAIN its) \cup {k} |-> IF j = k THEN item ELSE its[j]]

\* --------------------------------------------------------- MemoryCache.Get
GetIgnoringExpiry(its, key, t) ==
    IF key \notin DOMAIN its
    THEN [value |-> Nil, found |-> FALSE]
    ELSE [value |-> its[key].value, found |-> TRUE]

Get(its, key, t) ==
    IF key \notin DOMAIN its
    THEN [value |-> Nil, found |-> FALSE]
    ELSE IF After(t, its[key].expiration)
         THEN [value |-> Nil, found |-> FALSE]
         ELSE [value |-> its[key].value, found |-> TRUE]

\* ------------------------------------------------- MemoryCache.evictOldest
\* The range loop keeps the first key, in Go's unspecified iteration order,
\* whose expiration is not after any other: any key of minimal expiration can
\* be the one.  oldestKey == "" doubles as "nothing found", so a chosen key
\* "" is not deleted.  The result is the set of maps the call can leave.
OldestKeys(its) ==
    {k \in DOMAIN its :
        \A j \in DOMAIN its : ~Before(its[j].expiration, its[k].expiration)}

evictOldest(its) ==
    IF DOMAIN its = {}
    THEN {its}
    ELSE {IF oldestKey # "" THEN Remove(its, oldestKey) ELSE its :
            oldestKey \in OldestKeys(its)}

\* --------------------------------------------------------- MemoryCache.Set
\* The set of maps Set(key, value) can leave at time t.
SetExpiringAtOnce(its, cap, d, key, value, t) ==
    {Put(e, key, [value |-> value, expiration |-> t]) :
        e \in IF Cardinality(DOMAIN its) >= cap THEN evictOldest(its) ELSE {its}}

SetWithoutOverwrite(its, cap, d, key, value, t) ==
    {PutUnlessPresent(e, key, [value |-> value, expiration |-> t + d]) :
        e \in IF Cardinality(DOMAIN its) >= cap THEN evictOldest(its) ELSE {its}}

Set(its, cap, d, key, value, t) ==
    {Put(e, key, [value |-> value, expiration |-> t + d]) :
        e \in IF Cardinality(DOMAIN its) >= cap THEN evictOldest(its) ELSE {its}}

\* ----------------------------------------------- MemoryCache.removeExpired
removeExpiredAtBoundary(its, t) ==
    [k \in {j \in DOMAIN its : Before(t, its[j].expiration)} |-> its[k]]

removeExpiredKeepingNone(its, t) == <<>>

removeExpired(its, t) ==
    [k \in {j \in DOMAIN its : ~After(t, its[j].expiration)} |-> its[k]]

\* --------------------------------------------------- NewValidatorService
\* A collaborator is "nil" or the name of the object passed.
NewValidatorServiceUnchecked(ethClient, logger, cache) ==
    [built |-> TRUE, err |-> <<>>]

NewValidatorService(ethClient, logger, cache) ==
    IF ethClient = "nil"
    THEN [built |-> FALSE, err |-> <<"ethereum client is required">>]
    ELSE IF logger = "nil"
    THEN [built |-> FALSE, err |-> <<"logger is required">>]
    ELSE [built |-> TRUE, err |-> <<>>]

\* the service main builds: the beacon client, the logger and the MemoryCache
MainService ==
    [ethClient |-> "ethClient", logger |-> "log", cache |-> "memCache",
     state |-> "built", err |-> <<>>]

\* the collaborators a caller may hand to the constructor
ConstructorArgs ==
    [ethClient : {"nil", "ethClient"}, logger : {"nil", "log"},
     cache : {"nil", "memCache"}, state : {"args"}, err : {<<>>}]

\* ------------------------------------------------------------------ Init
\* The state NewMemoryCache returns, whatever ttl and maxSize are: an empty
\* map, an open stop channel and the reaper goroutine spawned but not yet
\* scheduled; no request under way.
InitMemory ==
    /\ items = <<>>
    /\ stopChan = "open"
    /\ reaper = "start"
    /\ tickPending = FALSE
    /\ nextTick = -1
    /\ now = 0
    /\ panicked = ""
    /\ ret = [op |-> "none", key |-> "", value |-> Nil, found |-> FALSE]
    /\ setAt = [k \in CacheKeys \cup ServiceKeys |-> -1]
    /\ pc = [w \in Workers |-> "idle"]
    /\ call = [w \in Workers |-> NoCall]
    /\ cur = [w \in Workers |-> -1]
    /\ blk = [w \in Workers |-> NoBlock]
    /\ out = [w \in Workers |-> NoOut]
    /\ trace = [w \in Workers |-> <<>>]
    /\ last = NoLast
    /\ mu = [readerCount |-> 0, w |-> FALSE]
    /\ thr = [t \in Threads |-> NoThr]
    /\ http = [w \in Workers |-> NoHttp]
    /\ req = [w \in Workers |-> ""]
    /\ mw = NoRequest

\* a cache whose ttl is long enough for the reaper's ticker
InitProgram ==
    /\ InitMemory
    /\ ttl \in 2..MaxTTL
    /\ maxSize \in 1..MaxCap

Init ==
    /\ InitProgram
    /\ arg = NoArg
    /\ res = NoRes
    /\ svc = MainService
    /\ node = AnyNode

\* ------------------------------------------------------- cache operations
CacheGet(key) ==
    /\ panicked = ""
    /\ LET r == Get(items, key, now)
       IN ret' = [op |-> "Get", key |-> key, value |-> r.value,
                  found |-> r.found]
    /\ UNCHANGED <<items, ttl, maxSize, stopChan, reaper, tickPending,
                   nextTick, now, panicked, setAt>>
    /\ UNCHANGED svcVars

CacheSet(key, value) ==
    /\ panicked = ""
    /\ items' \in Set(items, maxSize, ttl, key, value, now)
    /\ setAt' = StoredSince([setAt EXCEPT ![key] = now], items')
    /\ ret' = [op |-> "Set", key |-> key, value |-> Nil, found |-> FALSE]
    /\ UNCHANGED <<ttl, maxSize, stopChan, reaper, tickPending, nextTick,
                   now, panicked>>
    /\ UNCHANGED svcVars

CacheDelete(key) ==
    /\ panicked = ""
    /\ items' = Remove(items, key)
    /\ ret' = [op |-> "Delete", key |-> key, value |-> Nil, found |-> FALSE]
    /\ setAt' = StoredSince(setAt, items')
    /\ UNCHANGED <<ttl, maxSize, stopChan, reaper, tickPending, nextTick,
                   now, panicked>>
    /\ UNCHANGED svcVars

CacheClear ==
    /\ panicked = ""
    /\ items' = <<>>
    /\ ret' = [op |-> "Clear", key |-> "", value |-> Nil, found |-> FALSE]
    /\ setAt' = StoredSince(setAt, items')
    /\ UNCHANGED <<ttl, maxSize, stopChan, reaper, tickPending, nextTick,
                   now, panicked>>
    /\ UNCHANGED svcVars

\* close(c.stopChan): closing a closed channel panics
Close ==
    /\ panicked = ""
    /\ IF stopChan = "open"
       THEN /\ stopChan' = "closed"
            /\ panicked' = panicked
       ELSE /\ stopChan' = stopChan
            /\ panicked' = "close of closed channel"
    /\ ret' = [op |-> "Close", key |-> "", value |-> Nil, found |-> FALSE]
    /\ UNCHANGED <<items, ttl, maxSize, reaper, tickPending, nextTick, now,
                   setAt>>
    /\ UNCHANGED svcVars

\* ------------------------------------------------------------- the reaper
\* ticker := time.NewTicker(c.ttl / 2), which panics on a non-positive interval
ReaperStart ==
    /\ panicked = ""
    /\ reaper = "start"
    /\ IF ttl \div 2 <= 0
       THEN /\ panicked' = "non-positive interval for NewTicker"
            /\ UNCHANGED <<reaper, nextTick>>
       ELSE /\ reaper' = "loop"
            /\ nextTick' = now + (ttl \div 2)
            /\ panicked' = panicked
    /\ UNCHANGED <<items, ttl, maxSize, stopChan, tickPending, now, ret, setAt>>
    /\ UNCHANGED svcVars

\* case <-ticker.C: c.removeExpired()
ReaperSweep ==
    /\ panicked = ""
    /\ reaper = "loop"
    /\ tickPending
    /\ tickPending' = FALSE
    /\ items' = removeExpired(items, now)
    /\ setAt' = StoredSince(setAt, items')
    /\ UNCHANGED <<ttl, maxSize, stopChan, reaper, nextTick, now, panicked,
                   ret>>
    /\ UNCHANGED svcVars

\* case <-c.stopChan: return (the deferred ticker.Stop() runs)
ReaperStopLeavingSelectOnly ==
    /\ panicked = ""
    /\ reaper = "loop"
    /\ stopChan = "closed"
    /\ UNCHANGED cacheVars
    /\ UNCHANGED svcVars

ReaperStop ==
    /\ panicked = ""
    /\ reaper = "loop"
    /\ stopChan = "closed"
    /\ reaper' = "done"
    /\ tickPending' = FALSE
    /\ nextTick' = -1
    /\ UNCHANGED <<items, ttl, maxSize, stopChan, now, panicked, ret, setAt>>
    /\ UNCHANGED svcVars

\* the clock advances; a running ticker delivers its tick into the one-slot
\* channel ticker.C when its time comes (a tick nobody took is overwritten)
Tick ==
    /\ panicked = ""
    /\ now < MaxTime
    /\ now' = now + 1
    /\ IF nextTick >= 0 /\ now + 1 >= nextTick
       THEN /\ tickPending' = TRUE
            /\ nextTick' = nextTick + (ttl \div 2)
       ELSE UNCHANGED <<tickPending, nextTick>>
    /\ UNCHANGED <<items, ttl, maxSize, stopChan, reaper, panicked, ret, setAt>>
    /\ UNCHANGED svcVars

\* ------------------------------------------------- the resolution service
\* GetBlockReward and GetSyncCommitteeDuties run cache-check, oracle, fetch
\* and cache-fill in turn; a worker's action is the code from one blocking
\* call's return to the next call it issues.  trace lists the calls issued.

svcFrame == <<ttl, maxSize, stopChan, reaper, tickPending, nextTick, now, ret,
              fnVars, lockVars, svc, node, mw>>

\* the resolution of worker w ends returning (value, err)
Finish(w, value, err) ==
    /\ pc' = [pc EXCEPT ![w] = "done"]
    /\ out' = [out EXCEPT ![w] = [value |-> value, err |-> err]]

\* lines 52-55 and 116-119: a hit returns the cached value, type-asserted,
\* with nothing else done
OnHitRechecked(w, op, value) ==
    /\ trace' = [trace EXCEPT ![w] = <<"cache.Get", "GetCurrentSlot">>]
    /\ pc' = [pc EXCEPT ![w] = "oracle"]
    /\ UNCHANGED <<out, panicked>>

OnHit(w, op, value) ==
    /\ trace' = [trace EXCEPT ![w] = <<"cache.Get">>]
    /\ IF value.kind = ResultKind(op)
       THEN /\ Finish(w, value, <<>>)
            /\ panicked' = panicked
       ELSE /\ panicked' = "interface conversion"
            /\ UNCHANGED <<pc, out>>

\* lines 50-58 and 114-122: the cache check, made when the service has a
\* cache; a miss goes on to ask the oracle
Resolve(w, op, slot) ==
    /\ panicked = ""
    /\ svc.state = "built"
    /\ pc[w] = "idle"
    /\ call' = [call EXCEPT ![w] = [op |-> op, slot |-> slot]]
    /\ LET cached == IF svc.cache = "nil"
                     THEN [value |-> Nil, found |-> FALSE]
                     ELSE Get(items, cacheKey(op, slot), now)
           checked == IF svc.cache = "nil" THEN <<>> ELSE <<"cache.Get">>
       IN IF cached.found
          THEN /\ OnHit(w, op, cached.value)
               /\ UNCHANGED req
          ELSE /\ trace' = [trace EXCEPT ![w] = checked \o <<"GetCurrentSlot">>]
               /\ pc' = [pc EXCEPT ![w] = "oracle"]
               /\ req' = [req EXCEPT ![w] = GenesisEndpoint]
               /\ UNCHANGED <<out, panicked>>
    /\ UNCHANGED <<items, setAt, cur, blk, last>>
    /\ UNCHANGED svcFrame

\* the bound of each operation (lines 64 and 128)
OutOfBoundsInclusive(op, slot, currentSlot) ==
    IF op = "block_reward"
    THEN slot >= currentSlot
    ELSE slot >= currentSlot + SlotsPerEpoch * EpochsPerPeriod

OutOfBounds(op, slot, currentSlot) ==
    IF op = "block_reward"
    THEN slot > currentSlot
    ELSE slot > currentSlot + SlotsPerEpoch * EpochsPerPeriod

BoundsError(op) ==
    IF op = "block_reward" THEN <<ErrFutureSlot>> ELSE <<ErrSlotTooFarInFuture>>

\* lines 58-69 and 122-133: GetCurrentSlot returns; the bounds check
OracleReturn(w, resp, genesisTime) ==
    /\ panicked = ""
    /\ pc[w] = "oracle"
    /\ LET r == GetCurrentSlot(resp, genesisTime, UnixBase + now)
           op == call[w].op
       IN IF r.err # <<>>
          THEN /\ Finish(w, Nil, Wrap("failed to get current slot", r.err))
               /\ UNCHANGED <<cur, trace, req>>
          ELSE /\ cur' = [cur EXCEPT ![w] = r.slot]
               /\ IF OutOfBounds(op, call[w].slot, r.slot)
                  THEN /\ Finish(w, Nil, BoundsError(op))
                       /\ UNCHANGED <<trace, req>>
                  ELSE /\ pc' = [pc EXCEPT ![w] =
                                   IF op = "block_reward" THEN "block" ELSE "committee"]
                       /\ trace' = [trace EXCEPT ![w] = Append(@,
                                   IF op = "block_reward" THEN "GetBlockBySlot"
                                                          ELSE "GetSyncCommittee")]
                       /\ req' = [req EXCEPT ![w] =
                                    IF op = "block_reward"
                                    THEN BlockEndpoint(call[w].slot)
                                    ELSE SyncCommitteeEndpoint(call[w].slot)]
                       /\ UNCHANGED out
    /\ UNCHANGED <<items, setAt, panicked, call, blk, last>>
    /\ UNCHANGED <<svcFrame, http>>

\* what a failed fetch makes the resolution return (lines 70-77, 134-141)
FetchErrorUnclassified(what, err) == Wrap(what, <<"fetch failed">>)

FetchError(what, err) ==
    IF IsNotFound(err) THEN <<ErrSlotNotFound>> ELSE Wrap(what, err)

\* lines 69-79: GetBlockBySlot returns
BlockReturnRetrying(w, resp, block) ==
    /\ panicked = ""
    /\ pc[w] = "block"
    /\ LET err == doBeaconRequest(resp)
       IN IF err # <<>>
          THEN /\ trace' = [trace EXCEPT ![w] = Append(@, "GetBlockBySlot")]
               /\ UNCHANGED <<pc, out, blk, req>>
          ELSE /\ blk' = [blk EXCEPT ![w] = block]
               /\ pc' = [pc EXCEPT ![w] = "rewards"]
               /\ trace' = [trace EXCEPT ![w] = Append(@, "GetBlockRewards")]
               /\ req' = [req EXCEPT ![w] = RewardsEndpoint(call[w].slot)]
               /\ UNCHANGED out
    /\ UNCHANGED <<items, setAt, panicked, call, cur, last>>
    /\ UNCHANGED <<svcFrame, http>>

BlockReturn(w, resp, block) ==
    /\ panicked = ""
    /\ pc[w] = "block"
    /\ LET err == doBeaconRequest(resp)
       IN IF err # <<>>
          THEN /\ Finish(w, Nil, FetchError("failed to get block", err))
               /\ UNCHANGED <<blk, trace, req>>
          ELSE /\ blk' = [blk EXCEPT ![w] = block]
               /\ pc' = [pc EXCEPT ![w] = "rewards"]
               /\ trace' = [trace EXCEPT ![w] = Append(@, "GetBlockRewards")]
               /\ req' = [req EXCEPT ![w] = RewardsEndpoint(call[w].slot)]
               /\ UNCHANGED out
    /\ UNCHANGED <<items, setAt, panicked, call, cur, last>>
    /\ UNCHANGED <<svcFrame, http>>

\* the cache fill of a successful resolution, made when the service has a
\* cache (lines 98-100, 147-149), and its return
FillAndFinishWithoutSet(w, value) ==
    /\ UNCHANGED <<items, setAt, last>>
    /\ trace' = [trace EXCEPT ![w] = Append(@, "cache.Set")]
    /\ Finish(w, value, <<>>)

FillAndFinish(w, value) ==
    LET key == cacheKey(call[w].op, call[w].slot)
    IN IF svc.cache = "nil"
       THEN /\ UNCHANGED <<items, setAt, trace, last>>
            /\ Finish(w, value, <<>>)
       ELSE /\ items' \in Set(items, maxSize, ttl, key, value, now)
            /\ setAt' = StoredSince([setAt EXCEPT ![key] = now], items')
            /\ trace' = [trace EXCEPT ![w] = Append(@, "cache.Set")]
            /\ last' = [key |-> key, value |-> value]
            /\ Finish(w, value, <<>>)

\* lines 79-108: GetBlockRewards returns; classify, parse, fill, return
RewardsReturn(w, resp, total) ==
    /\ panicked = ""
    /\ pc[w] = "rewards"
    /\ LET err == doBeaconRequest(resp)
           status == determineBlockStatus(blk[w])
           totalReward == parseReward(total)
       IN IF err # <<>>
          THEN /\ Finish(w, Nil, Wrap("failed to get block rewards", err))
               /\ UNCHANGED <<items, setAt, trace, last>>
          ELSE IF totalReward.err # <<>>
          THEN /\ Finish(w, Nil, Wrap("failed to parse reward", totalReward.err))
               /\ UNCHANGED <<items, setAt, trace, last>>
          ELSE FillAndFinish(w, BlockReward(status, totalReward.value))
    /\ UNCHANGED <<panicked, call, cur, blk, req>>
    /\ UNCHANGED <<svcFrame, http>>

\* lines 133-156: GetSyncCommittee returns; fill, return
CommitteeReturnCachingFailure(w, resp, validators) ==
    /\ panicked = ""
    /\ pc[w] = "committee"
    /\ LET err == doBeaconRequest(resp)
           key == cacheKey(call[w].op, call[w].slot)
       IN IF err # <<>>
          THEN /\ Finish(w, Nil, FetchError("failed to get sync committee", err))
               /\ items' \in Set(items, maxSize, ttl, key, Nil, now)
               /\ setAt' = StoredSince([setAt EXCEPT ![key] = now], items')
               /\ UNCHANGED <<trace, last>>
          ELSE FillAndFinish(w, SyncCommitteeDuties(validators))
    /\ UNCHANGED <<panicked, call, cur, blk, req>>
    /\ UNCHANGED <<svcFrame, http>>

CommitteeReturn(w, resp, validators) ==
    /\ panicked = ""
    /\ pc[w] = "committee"
    /\ LET err == doBeaconRequest(resp)
       IN IF err # <<>>
          THEN /\ Finish(w, Nil, FetchError("failed to get sync committee", err))
               /\ UNCHANGED <<items, setAt, trace, last>>
          ELSE FillAndFinish(w, SyncCommitteeDuties(validators))
    /\ UNCHANGED <<panicked, call, cur, blk, req>>
    /\ UNCHANGED <<svcFrame, http>>

\* the caller has taken the result; the worker is free for the next request
Return(w) ==
    /\ panicked = ""
    /\ pc[w] = "done"
    /\ pc' = [pc EXCEPT ![w] = "idle"]
    /\ call' = [call EXCEPT ![w] = NoCall]
    /\ cur' = [cur EXCEPT ![w] = -1]
    /\ blk' = [blk EXCEPT ![w] = NoBlock]
    /\ out' = [out EXCEPT ![w] = NoOut]
    /\ trace' = [trace EXCEPT ![w] = <<>>]
    /\ req' = [req EXCEPT ![w] = ""]
    /\ UNCHANGED <<items, setAt, panicked, last>>
    /\ UNCHANGED svcFrame

\* The program: main builds one MemoryCache and hands it to the service, its
\* only user; requests are resolved one after the other while the reaper
\* sweeps and time passes.
ServiceNext ==
    \/ \E w \in Sequential, op \in Ops, slot \in Slots :
          Resolve(w, op, slot) /\ UNCHANGED http
    \/ \E w \in Sequential, resp \in BeaconResponses, g \in GenesisTimes :
          OracleReturn(w, resp, g)
    \/ \E w \in Sequential, resp \in BeaconResponses, b \in Blocks :
          BlockReturn(w, resp, b)
    \/ \E w \in Sequential, resp \in BeaconResponses, t \in Totals :
          RewardsReturn(w, resp, t)
    \/ \E w \in Sequential, resp \in BeaconResponses, c \in Committees :
          CommitteeReturn(w, resp, c)
    \/ \E w \in Sequential : Return(w) /\ UNCHANGED http
    \/ ReaperStart
    \/ ReaperSweep
    \/ Tick

Spec == Init /\ [][ServiceNext]_vars

\* ------------------------------------- ValidatorHandler.handleServiceError
\* The status and the error text respondError is called with; the text of an
\* error is its chain (err.Error() joins the layers with ": ").
handleServiceErrorOutermostLayer(err) ==
    IF err[1] = ErrSlotNotFound THEN [status |-> 404, body |-> err]
    ELSE IF err[1] \in {ErrFutureSlot, ErrInvalidSlot, ErrSlotTooFarInFuture}
    THEN [status |-> 400, body |-> err]
    ELSE IF err[1] = ErrTimeout THEN [status |-> 408, body |-> err]
    ELSE [status |-> 500, body |-> <<ErrInternal>>]

handleServiceErrorLeaking(err) ==
    IF IsNotFound(err) THEN [status |-> 404, body |-> err]
    ELSE IF IsBadRequest(err) THEN [status |-> 400, body |-> err]
    ELSE IF IsTimeout(err) THEN [status |-> 408, body |-> err]
    ELSE [status |-> 500, body |-> err]

handleServiceError(err) ==
    IF IsNotFound(err) THEN [status |-> 404, body |-> err]
    ELSE IF IsBadRequest(err) THEN [status |-> 400, body |-> err]
    ELSE IF IsTimeout(err) THEN [status |-> 408, body |-> err]
    ELSE [status |-> 500, body |-> <<ErrInternal>>]

\* --------------------------------------- ValidatorHandler.parseSlotFromPath
\* strings.TrimPrefix and strings.TrimSuffix
TrimPrefix(str, prefix) ==
    IF HasPrefix(str, prefix) THEN SubSeq(str, Len(prefix) + 1, Len(str)) ELSE str

TrimSuffix(str, suffix) ==
    IF /\ Len(str) >= Len(suffix)
       /\ SubSeq(str, Len(str) - Len(suffix) + 1, Len(str)) = suffix
    THEN SubSeq(str, 1, Len(str) - Len(suffix)) ELSE str

\* the digits of 1<<64 - 1
MaxUint64 ==
    <<"1", "8", "4", "4", "6", "7", "4", "4", "0", "7", "3", "7", "0",
      "9", "5", "5", "1", "6", "1", "5">>

RECURSIVE TrimZeros(_)
TrimZeros(ds) ==
    IF Len(ds) > 1 /\ Head(ds) = "0" THEN TrimZeros(Tail(ds)) ELSE ds

\* digit strings of one length compared as numbers
RECURSIVE DigitsLeq(_, _)
DigitsLeq(a, b) ==
    IF a = <<>> THEN TRUE
    ELSE IF DigitValue(Head(a)) # DigitValue(Head(b))
    THEN DigitValue(Head(a)) < DigitValue(Head(b))
    ELSE DigitsLeq(Tail(a), Tail(b))

FitsUint64(ds) ==
    LET n == TrimZeros(ds)
    IN \/ Len(n) < Len(MaxUint64)
       \/ Len(n) = Len(MaxUint64) /\ DigitsLeq(n, MaxUint64)

\* strconv.ParseUint(str, 10, 64): one or more decimal digits and nothing
\* else (no sign, no space, no underscore), of value below 1<<64; the value
\* is kept as its digits without leading zeros
ParseUint(str) ==
    IF str = <<>> \/ \E i \in DOMAIN str : ~IsDigit(str[i])
    THEN [digits |-> <<>>, err |-> <<"strconv.ParseUint", "invalid syntax">>]
    ELSE IF ~FitsUint64(str)
    THEN [digits |-> <<>>, err |-> <<"strconv.ParseUint", "value out of range">>]
    ELSE [digits |-> TrimZeros(str), err |-> <<>>]

\* NewValidationError(field, value, err): a layer that unwraps to err
NewValidationError(field, value, err) ==
    <<[field |-> field, value |-> value]>> \o err

parseSlotFromPathUntrimmed(path, prefix) ==
    IF ~HasPrefix(path, prefix)
    THEN [digits |-> <<>>,
          err |-> NewValidationError("path", path, <<ErrInvalidSlot>>)]
    ELSE LET slotStr == TrimPrefix(path, prefix)
         IN IF slotStr = <<>>
            THEN [digits |-> <<>>,
                  err |-> NewValidationError("slot", <<>>, <<ErrInvalidSlot>>)]
            ELSE LET r == [digits |-> DigitPrefix(slotStr),
                           err |-> IF DigitPrefix(slotStr) = <<>>
                                   THEN <<"strconv.ParseUint", "invalid syntax">>
                                   ELSE <<>>]
                 IN IF r.err # <<>>
                    THEN [digits |-> <<>>,
                          err |-> NewValidationError("slot", slotStr, r.err)]
                    ELSE r

parseSlotFromPath(path, prefix) ==
    IF ~HasPrefix(path, prefix)
    THEN [digits |-> <<>>,
          err |-> NewValidationError("path", path, <<ErrInvalidSlot>>)]
    ELSE LET slotStr == TrimSuffix(TrimPrefix(path, prefix), <<"/">>)
         IN IF slotStr = <<>>
            THEN [digits |-> <<>>,
                  err |-> NewValidationError("slot", <<>>, <<ErrInvalidSlot>>)]
            ELSE LET r == ParseUint(slotStr)
                 IN IF r.err # <<>>
                    THEN [digits |-> <<>>,
                          err |-> NewValidationError("slot", slotStr, r.err)]
                    ELSE r

\* --------------------------------------------------- the request handlers
\* ValidatorHandler.GetBlockReward and GetSyncDuties, registered in main under
\* "/blockreward/" and "/syncduties/".
Prefix(op) ==
    IF op = "block_reward"
    THEN <<"/", "b", "l", "o", "c", "k", "r", "e", "w", "a", "r", "d", "/">>
    ELSE <<"/", "s", "y", "n", "c", "d", "u", "t", "i", "e", "s", "/">>

\* what follows the prefix in the request paths: slots in several spellings,
\* nothing, and strings that are no decimal unsigned 64-bit integer
SlotSegments == {
    <<"2">>,
    <<"0", "0", "2">>,
    <<"2", "/">>,
    <<>>,
    <<"/">>,
    <<"x">>,
    <<"-", "2">>,
    <<"+", "2">>,
    <<"2", "x">>,
    <<"2", "/", "2">>,
    <<"1", "8", "4", "4", "6", "7", "4", "4", "0", "7", "3", "7", "0",
      "9", "5", "5", "1", "6", "1", "6">>}

HttpResponses == {"ok", "notfound", "deadline"}
HttpGenesis == {<<"0">>}
HttpBlocks == {BlockMev}

\* lines 44-59 and 72-87: the slot is parsed from the path; a path that does
\* not parse has its error logged, is answered 400 with ErrInvalidSlot and the
\* handler returns, any other is handed to the service, whose first step is
\* the cache check
Handle(w, op, path) ==
    /\ panicked = ""
    /\ pc[w] = "idle"
    /\ LET p == parseSlotFromPath(path, Prefix(op))
       IN IF p.err # <<>>
          THEN /\ http' = [http EXCEPT ![w] =
                    [path |-> path, status |-> 400, body |-> <<ErrInvalidSlot>>,
                     calls |-> 0, logged |-> p.err]]
               /\ UNCHANGED <<items, setAt, panicked, pc, call, cur, blk, out,
                              trace, last, req>>
               /\ UNCHANGED svcFrame
          ELSE /\ http' = [http EXCEPT ![w] =
                    [path |-> path, status |-> 0, body |-> <<>>, calls |-> 1,
                     logged |-> <<>>]]
               /\ Resolve(w, op, DecimalValue(p.digits))

\* lines 60-65 and 88-93: the service has returned; an error is logged and
\* answered by handleServiceError, a result is written with status 200
Respond(w) ==
    /\ pc[w] = "done"
    /\ http' = [http EXCEPT ![w] =
          IF out[w].err # <<>>
          THEN [path |-> @.path, status |-> handleServiceError(out[w].err).status,
                body |-> handleServiceError(out[w].err).body, calls |-> @.calls,
                logged |-> out[w].err]
          ELSE [path |-> @.path, status |-> 200, body |-> <<>>, calls |-> @.calls,
                logged |-> <<>>]]
    /\ Return(w)

HttpNext ==
    \/ \E w \in Sequential, op \in Ops, seg \in SlotSegments :
          Handle(w, op, Prefix(op) \o seg)
    \/ \E w \in Sequential, resp \in HttpResponses, g \in HttpGenesis :
          OracleReturn(w, resp, g)
    \/ \E w \in Sequential, resp \in HttpResponses, b \in HttpBlocks :
          BlockReturn(w, resp, b)
    \/ \E w \in Sequential, resp \in HttpResponses, t \in Totals :
          RewardsReturn(w, resp, t)
    \/ \E w \in Sequential, resp \in HttpResponses, c \in Committees :
          CommitteeReturn(w, resp, c)
    \/ \E w \in Sequential : Respond(w)
    \/ ReaperStart
    \/ ReaperSweep
    \/ Tick

SpecHttp == Init /\ [][HttpNext]_vars

\* ---------------------------------------------------- middleware.Timeout
\* One request through Timeout(timeout)(mux).  The middleware starts the
\* handler in a goroutine of its own and waits in a select for the handler
\* to finish or for the request's deadline; both goroutines hold the same
\* responseWriter, whose fields no lock protects.  A call of WriteHeader is
\* two steps, the read of wroteHeader and the write that follows it.
RequestTimeouts == {1, 2}
HandlerStatuses == {200, 400, 404, 500}

mwFrame == <<cacheVars, pc, call, cur, blk, out, trace, last, fnVars, lockVars,
             http, req, svc, node>>

\* the middleware derives the deadline and starts the handler goroutine
TimeoutServe(timeout) ==
    /\ mw.at = "idle"
    /\ mw' = [mw EXCEPT !.at = "select", !.inner = "serving",
                        !.deadline = now + timeout]
    /\ UNCHANGED mwFrame

\* responseWriter.WriteHeader, first half: if rw.wroteHeader { return }
ReadWroteHeader(m, g) == [m EXCEPT !.sawHeader[g] = m.wroteHeader]

\* responseWriter.WriteHeader, second half: the status, the header sent by
\* the writer below, the flag
SetHeader(m, g, code) ==
    IF m.sawHeader[g] THEN m
    ELSE [m EXCEPT !.status = code,
                   !.sent = Append(@, [by |-> g, what |-> "header", code |-> code]),
                   !.wroteHeader = TRUE]

\* responseWriter.Write after the goroutine's own WriteHeader: the body goes
\* to the writer below
WriteBody(m, g, code) ==
    [m EXCEPT !.sent = Append(@, [by |-> g, what |-> "body", code |-> code])]

\* the handler has its answer and calls w.WriteHeader(status)
InnerWriteHeader(code) ==
    /\ mw.inner = "serving"
    /\ mw' = [ReadWroteHeader(mw, "inner") EXCEPT !.inner = "checked",
                                                  !.code = code]
    /\ UNCHANGED mwFrame

InnerSetHeader ==
    /\ mw.inner = "checked"
    /\ mw' = [SetHeader(mw, "inner", mw.code) EXCEPT !.inner = "header"]
    /\ UNCHANGED mwFrame

\* json.NewEncoder(w).Encode(response), and the handler returns
InnerWrite ==
    /\ mw.inner = "header"
    /\ mw' = [WriteBody(mw, "inner", mw.code) EXCEPT !.inner = "finished"]
    /\ UNCHANGED mwFrame

\* close(done)
InnerClose ==
    /\ mw.inner = "finished"
    /\ mw' = [mw EXCEPT !.inner = "closed"]
    /\ UNCHANGED mwFrame

\* case <-done: return
SelectDone ==
    /\ mw.at = "select"
    /\ mw.inner = "closed"
    /\ mw' = [mw EXCEPT !.at = "returned"]
    /\ UNCHANGED mwFrame

\* case <-ctx.Done(): w.WriteHeader(http.StatusRequestTimeout)
SelectTimeout ==
    /\ mw.at = "select"
    /\ now >= mw.deadline
    /\ mw' = [ReadWroteHeader(mw, "timeout") EXCEPT !.at = "checked"]
    /\ UNCHANGED mwFrame

TimeoutSetHeader ==
    /\ mw.at = "checked"
    /\ mw' = [SetHeader(mw, "timeout", 408) EXCEPT !.at = "header"]
    /\ UNCHANGED mwFrame

\* w.Write([]byte(`{"error":"request timeout"}`)), and the middleware returns
TimeoutWrite ==
    /\ mw.at = "header"
    /\ mw' = [WriteBody(mw, "timeout", 408) EXCEPT !.at = "returned"]
    /\ UNCHANGED mwFrame

TimeoutNext ==
    \/ \E d \in RequestTimeouts : TimeoutServe(d)
    \/ \E code \in HandlerStatuses : InnerWriteHeader(code)
    \/ InnerSetHeader
    \/ InnerWrite
    \/ InnerClose
    \/ SelectDone
    \/ SelectTimeout
    \/ TimeoutSetHeader
    \/ TimeoutWrite
    \/ Tick

SpecTimeout == Init /\ [][TimeoutNext]_vars

\* ------------------------------------------------ two requests at a time
\* Two request goroutines resolve at the same time, each step of one
\* interleaved with the steps of the other; the beacon node answers, or
\* reports not-found.
ConcurrentSlots == {2}
ConcurrentResponses == {"ok", "notfound"}
ConcurrentGenesis == {<<"0">>}
ConcurrentTotals == {<<"1", "0">>}

ConcurrentNext ==
    \/ \E w \in Workers, op \in Ops, slot \in ConcurrentSlots :
          Resolve(w, op, slot) /\ UNCHANGED http
    \/ \E w \in Workers, resp \in ConcurrentResponses, g \in ConcurrentGenesis :
          OracleReturn(w, resp, g)
    \/ \E w \in Workers, resp \in ConcurrentResponses, b \in Blocks :
          BlockReturn(w, resp, b)
    \/ \E w \in Workers, resp \in ConcurrentResponses, t \in ConcurrentTotals :
          RewardsReturn(w, resp, t)
    \/ \E w \in Workers, resp \in ConcurrentResponses, c \in Committees :
          CommitteeReturn(w, resp, c)
    \/ \E w \in Workers : Return(w) /\ UNCHANGED http
    \/ ReaperStart
    \/ ReaperSweep
    \/ Tick

SpecConcurrent == Init /\ [][ConcurrentNext]_vars

\* ------------------------------------------- a deterministic beacon node
\* Beacon nodes that give the same answer to the same request: one answer
\* to GET genesis, and per slot one answer to the block, the rewards and the
\* sync-committee request.
Answers(genesis, block, rewards, low, high) ==
    [kind |-> "deterministic",
     genesis |-> genesis,
     block |-> [s \in Slots |-> block],
     rewards |-> [s \in Slots |-> rewards],
     committee |-> [s \in Slots |->
                      IF s < SlotsPerEpoch * EpochsPerPeriod THEN low ELSE high]]

DeterministicNodes == {
    Answers([resp |-> "ok", time |-> <<"0">>],
            [resp |-> "ok", block |-> BlockMev],
            [resp |-> "ok", total |-> <<"1", "0">>],
            [resp |-> "ok", validators |-> <<"0xvalidator1", "0xvalidator2">>],
            [resp |-> "ok", validators |-> <<"0xvalidator3">>]),
    Answers([resp |-> "ok", time |-> <<"1", "2">>],
            [resp |-> "ok", block |-> BlockEmpty],
            [resp |-> "ok", total |-> <<"1", "0">>],
            [resp |-> "ok", validators |-> <<"0xvalidator1", "0xvalidator2">>],
            [resp |-> "ok", validators |-> <<"0xvalidator3">>]),
    Answers([resp |-> "ok", time |-> <<"0">>],
            [resp |-> "notfound", block |-> NoBlock],
            [resp |-> "ok", total |-> <<"1", "0">>],
            [resp |-> "ok", validators |-> <<"0xvalidator1", "0xvalidator2">>],
            [resp |-> "notfound", validators |-> <<>>]),
    Answers([resp |-> "ok", time |-> <<"0">>],
            [resp |-> "ok", block |-> BlockEmpty],
            [resp |-> "ok", total |-> <<"x">>],
            [resp |-> "transport", validators |-> <<>>],
            [resp |-> "ok", validators |-> <<"0xvalidator3">>]),
    Answers([resp |-> "notfound", time |-> <<>>],
            [resp |-> "ok", block |-> BlockMev],
            [resp |-> "ok", total |-> <<"1", "0">>],
            [resp |-> "ok", validators |-> <<"0xvalidator1", "0xvalidator2">>],
            [resp |-> "ok", validators |-> <<"0xvalidator3">>]),
    \* the one node whose current slot moves on, from 1 to 2, during a run
    Answers([resp |-> "ok", time |-> <<"2">>],
            [resp |-> "ok", block |-> BlockMev],
            [resp |-> "ok", total |-> <<"1", "0">>],
            [resp |-> "ok", validators |-> <<"0xvalidator1", "0xvalidator2">>],
            [resp |-> "ok", validators |-> <<"0xvalidator3">>])}

InitDeterministic ==
    /\ InitProgram
    /\ arg = NoArg
    /\ res = NoRes
    /\ svc = MainService
    /\ node \in DeterministicNodes

\* two request goroutines against the deterministic node
DeterministicNext ==
    \/ \E w \in Workers, op \in Ops, slot \in Slots :
          Resolve(w, op, slot) /\ UNCHANGED http
    \/ \E w \in Workers :
          OracleReturn(w, node.genesis.resp, node.genesis.time)
    \/ \E w \in Workers :
          /\ pc[w] = "block"
          /\ BlockReturn(w, node.block[call[w].slot].resp,
                         node.block[call[w].slot].block)
    \/ \E w \in Workers :
          /\ pc[w] = "rewards"
          /\ RewardsReturn(w, node.rewards[call[w].slot].resp,
                           node.rewards[call[w].slot].total)
    \/ \E w \in Workers :
          /\ pc[w] = "committee"
          /\ CommitteeReturn(w, node.committee[call[w].slot].resp,
                             node.committee[call[w].slot].validators)
    \/ \E w \in Workers : Return(w) /\ UNCHANGED http
    \/ ReaperStart
    \/ ReaperSweep
    \/ Tick

SpecDeterministic == InitDeterministic /\ [][DeterministicNext]_vars

\* ------------------------------------------------- construction of the service
\* The service is yet to be built, from collaborators any of which may be
\* nil; the MemoryCache exists whether or not it is handed to the service.
InitConstruct ==
    /\ InitProgram
    /\ arg = NoArg
    /\ res = NoRes
    /\ svc \in ConstructorArgs
    /\ node = AnyNode

\* the call of NewValidatorService: the service or an error
Construct ==
    /\ svc.state = "args"
    /\ LET r == NewValidatorService(svc.ethClient, svc.logger, svc.cache)
       IN svc' = [svc EXCEPT !.state = IF r.built THEN "built" ELSE "failed",
                             !.err = r.err]
    /\ UNCHANGED <<cacheVars, pc, call, cur, blk, out, trace, last, fnVars,
                   lockVars, http, req, node, mw>>

ConstructNext ==
    \/ Construct
    \/ \E w \in Sequential, op \in Ops, slot \in Slots :
          Resolve(w, op, slot) /\ UNCHANGED http
    \/ \E w \in Sequential, resp \in ConcurrentResponses, g \in GenesisTimes :
          OracleReturn(w, resp, g)
    \/ \E w \in Sequential, resp \in ConcurrentResponses, b \in Blocks :
          BlockReturn(w, resp, b)
    \/ \E w \in Sequential, resp \in ConcurrentResponses, t \in Totals :
          RewardsReturn(w, resp, t)
    \/ \E w \in Sequential, resp \in ConcurrentResponses, c \in Committees :
          CommitteeReturn(w, resp, c)
    \/ \E w \in Sequential : Return(w) /\ UNCHANGED http
    \/ ReaperStart
    \/ ReaperSweep
    \/ Tick

SpecConstruct == InitConstruct /\ [][ConstructNext]_vars

\* --------------------------------------------------- the cache on its own
\* Callers use the exported API of MemoryCache directly, with any key.
CacheNext ==
    \/ \E k \in CacheKeys : CacheGet(k)
    \/ \E k \in CacheKeys, v \in CacheValues : CacheSet(k, v)
    \/ \E k \in CacheKeys : CacheDelete(k)
    \/ CacheClear
    \/ Close
    \/ ReaperStart
    \/ ReaperSweep
    \/ ReaperStop
    \/ Tick

SpecCache == Init /\ [][CacheNext]_vars

\* ------------------------------------------- the cache's life, scheduled
\* Two caller keys and one value, the cache closed at some point, and the
\* reaper goroutine scheduled fairly: a goroutine that can run does run, and
\* a select with a ready case takes a ready case (each one in turn, when
\* several stay ready).
LifecycleKeys == {"a", "b"}
LifecycleValues == {[kind |-> "opaque", id |-> "x"]}

LifecycleNext ==
    \/ \E k \in LifecycleKeys : CacheGet(k)
    \/ \E k \in LifecycleKeys, v \in LifecycleValues : CacheSet(k, v)
    \/ \E k \in LifecycleKeys : CacheDelete(k)
    \/ CacheClear
    \/ Close
    \/ ReaperStart
    \/ ReaperSweep
    \/ ReaperStop
    \/ Tick

SpecLifecycle ==
    /\ Init
    /\ [][LifecycleNext]_vars
    /\ WF_vars(ReaperStart)
    /\ WF_vars(ReaperSweep)
    /\ WF_vars(ReaperStop)

\* -------------------------------------------- the cache main configures
\* Config.validate, as far as the cache is concerned: only MaxSize is looked
\* at; the error, nil for a configuration that is accepted
validate(cacheTTL, cacheMaxSize) ==
    IF cacheMaxSize <= 0 THEN <<"cache max size must be positive">> ELSE <<>>

\* CACHE_TTL and CACHE_MAX_SIZE as the environment can set them
ConfigTTLs == 0..MaxTTL
ConfigMaxSizes == 0..MaxCap

\* main: config.Load, then cache.NewMemoryCache(cfg.Cache.TTL, cfg.Cache.MaxSize)
InitConfig ==
    /\ InitMemory
    /\ ttl \in ConfigTTLs
    /\ maxSize \in ConfigMaxSizes
    /\ validate(ttl, maxSize) = <<>>
    /\ arg = NoArg
    /\ res = NoRes
    /\ svc = MainService
    /\ node = AnyNode

SpecConfig == InitConfig /\ [][LifecycleNext]_vars

\* ----------------------------------------------- the cache, lock by lock
\* Each method of MemoryCache taken apart at c.mu: the goroutine acquires the
\* lock, runs the body, and releases it (the deferred Unlock/RUnlock).

\* the lock each method takes: Get c.mu.RLock(), every other c.mu.Lock()
LockKindAllShared(method) == "R"

LockKind(method) == IF method = "Get" THEN "R" ELSE "W"

\* sync.RWMutex: RLock proceeds unless a writer holds the lock; Lock proceeds
\* when neither a writer nor a reader holds it
CanAcquire(m, kind) ==
    IF kind = "R" THEN ~m.w ELSE ~m.w /\ m.readerCount = 0

Acquire(m, kind) ==
    IF kind = "R" THEN [m EXCEPT !.readerCount = @ + 1] ELSE [m EXCEPT !.w = TRUE]

Release(m, kind) ==
    IF kind = "R" THEN [m EXCEPT !.readerCount = @ - 1] ELSE [m EXCEPT !.w = FALSE]

LockKeys == {"a", "b"}
LockValue == [kind |-> "opaque", id |-> "x"]
CallerMethods == {"Get", "Set", "Delete", "Clear"}

lockFrame == <<pc, call, cur, blk, out, trace, last, fnVars, http, req, svc,
               node, mw>>

\* a caller enters Get, Set, Delete or Clear and takes the method's lock
CallerLock(t, method, key) ==
    /\ panicked = ""
    /\ thr[t].at = "idle"
    /\ CanAcquire(mu, LockKind(method))
    /\ mu' = Acquire(mu, LockKind(method))
    /\ thr' = [thr EXCEPT ![t] = [at |-> "locked", method |-> method,
                                  key |-> IF method = "Clear" THEN "" ELSE key]]
    /\ UNCHANGED cacheVars
    /\ UNCHANGED lockFrame

\* case <-ticker.C: the reaper enters removeExpired and takes the lock
ReaperLock ==
    /\ panicked = ""
    /\ reaper = "loop"
    /\ tickPending
    /\ thr["reaper"].at = "idle"
    /\ CanAcquire(mu, LockKind("removeExpired"))
    /\ mu' = Acquire(mu, LockKind("removeExpired"))
    /\ tickPending' = FALSE
    /\ thr' = [thr EXCEPT !["reaper"] = [at |-> "locked",
                                         method |-> "removeExpired", key |-> ""]]
    /\ UNCHANGED <<items, ttl, maxSize, stopChan, reaper, nextTick, now,
                   panicked, ret, setAt>>
    /\ UNCHANGED lockFrame

\* Get's body (lines 38-47)
GetBody(t) ==
    /\ thr[t].at = "locked"
    /\ thr[t].method = "Get"
    /\ LET r == Get(items, thr[t].key, now)
       IN ret' = [op |-> "Get", key |-> thr[t].key, value |-> r.value,
                  found |-> r.found]
    /\ thr' = [thr EXCEPT ![t].at = "done"]
    /\ UNCHANGED <<items, ttl, maxSize, stopChan, reaper, tickPending,
                   nextTick, now, panicked, setAt, mu>>
    /\ UNCHANGED lockFrame

\* Set's eviction scan (lines 54-56)
SetEvict(t) ==
    /\ thr[t].at = "locked"
    /\ thr[t].method = "Set"
    /\ items' \in IF Cardinality(DOMAIN items) >= maxSize
                  THEN evictOldest(items) ELSE {items}
    /\ thr' = [thr EXCEPT ![t].at = "evicted"]
    /\ setAt' = StoredSince(setAt, items')
    /\ UNCHANGED <<ttl, maxSize, stopChan, reaper, tickPending, nextTick,
                   now, panicked, ret, mu>>
    /\ UNCHANGED lockFrame

\* Set's insertion (lines 58-61)
SetInsert(t) ==
    /\ thr[t].at = "evicted"
    /\ items' = Put(items, thr[t].key,
                    [value |-> LockValue, expiration |-> now + ttl])
    /\ setAt' = StoredSince([setAt EXCEPT ![thr[t].key] = now], items')
    /\ ret' = [op |-> "Set", key |-> thr[t].key, value |-> Nil, found |-> FALSE]
    /\ thr' = [thr EXCEPT ![t].at = "done"]
    /\ UNCHANGED <<ttl, maxSize, stopChan, reaper, tickPending, nextTick,
                   now, panicked, mu>>
    /\ UNCHANGED lockFrame

\* Delete's body (line 68)
DeleteBody(t) ==
    /\ thr[t].at = "locked"
    /\ thr[t].method = "Delete"
    /\ items' = Remove(items, thr[t].key)
    /\ thr' = [thr EXCEPT ![t].at = "done"]
    /\ setAt' = StoredSince(setAt, items')
    /\ UNCHANGED <<ttl, maxSize, stopChan, reaper, tickPending, nextTick,
                   now, panicked, ret, mu>>
    /\ UNCHANGED lockFrame

\* Clear's body (line 75)
ClearBody(t) ==
    /\ thr[t].at = "locked"
    /\ thr[t].method = "Clear"
    /\ items' = <<>>
    /\ thr' = [thr EXCEPT ![t].at = "done"]
    /\ setAt' = StoredSince(setAt, items')
    /\ UNCHANGED <<ttl, maxSize, stopChan, reaper, tickPending, nextTick,
                   now, panicked, ret, mu>>
    /\ UNCHANGED lockFrame

\* removeExpired's body (lines 100-105)
SweepBody ==
    /\ thr["reaper"].at = "locked"
    /\ items' = removeExpired(items, now)
    /\ thr' = [thr EXCEPT !["reaper"].at = "done"]
    /\ setAt' = StoredSince(setAt, items')
    /\ UNCHANGED <<ttl, maxSize, stopChan, reaper, tickPending, nextTick,
                   now, panicked, ret, mu>>
    /\ UNCHANGED lockFrame

\* the deferred c.mu.Unlock() / c.mu.RUnlock()
Unlock(t) ==
    /\ thr[t].at = "done"
    /\ mu' = Release(mu, LockKind(thr[t].method))
    /\ thr' = [thr EXCEPT ![t] = NoThr]
    /\ UNCHANGED cacheVars
    /\ UNCHANGED lockFrame

LockNext ==
    \/ \E t \in Callers, m \in CallerMethods, k \in LockKeys : CallerLock(t, m, k)
    \/ ReaperLock
    \/ \E t \in Callers : GetBody(t)
    \/ \E t \in Callers : SetEvict(t)
    \/ \E t \in Callers : SetInsert(t)
    \/ \E t \in Callers : DeleteBody(t)
    \/ \E t \in Callers : ClearBody(t)
    \/ SweepBody
    \/ \E t \in Threads : Unlock(t)
    \/ ReaperStart
    \/ Tick

SpecLock == Init /\ [][LockNext]_vars

\* ------------------------------------ the cache, lock by lock, with waiting
\* The same methods with the call and the grant of the lock apart, so that a
\* goroutine can be seen waiting at c.mu.  sync.RWMutex as Go implements it:
\* a writer first passes the writers' mutex, then announces itself and waits
\* for the readers inside to leave; a reader arriving while a writer is
\* announced or inside blocks until that writer's Unlock, which lets in every
\* reader blocked at that moment.  Positions of a goroutine at the lock:
\* "wblocked" (at the writers' mutex), "pending" (announced), "rblocked".
WriterIn == mu.w \/ \E u \in Threads : thr[u].at = "pending"

\* where a call of c.mu.RLock() or c.mu.Lock() leaves the goroutine
AfterCall(kind) ==
    IF kind = "R"
    THEN IF WriterIn THEN "rblocked" ELSE "locked"
    ELSE IF WriterIn THEN "wblocked" ELSE "pending"

\* a caller enters a method and calls the method's lock
CallerEnter(t, method, key) ==
    /\ panicked = ""
    /\ thr[t].at = "idle"
    /\ thr' = [thr EXCEPT ![t] = [at |-> AfterCall(LockKind(method)),
                                  method |-> method,
                                  key |-> IF method = "Clear" THEN "" ELSE key]]
    /\ mu' = IF AfterCall(LockKind(method)) = "locked"
             THEN Acquire(mu, "R") ELSE mu
    /\ UNCHANGED cacheVars
    /\ UNCHANGED lockFrame

\* case <-ticker.C: the reaper enters removeExpired and calls c.mu.Lock()
ReaperEnter ==
    /\ panicked = ""
    /\ reaper = "loop"
    /\ tickPending
    /\ thr["reaper"].at = "idle"
    /\ tickPending' = FALSE
    /\ thr' = [thr EXCEPT !["reaper"] = [at |-> AfterCall("W"),
                                         method |-> "removeExpired", key |-> ""]]
    /\ UNCHANGED <<items, ttl, maxSize, stopChan, reaper, nextTick, now,
                   panicked, ret, setAt, mu>>
    /\ UNCHANGED lockFrame

\* the writers' mutex is free: the waiting writer takes it and announces itself
WriterTurn(t) ==
    /\ thr[t].at = "wblocked"
    /\ ~WriterIn
    /\ thr' = [thr EXCEPT ![t].at = "pending"]
    /\ UNCHANGED <<cacheVars, mu>>
    /\ UNCHANGED lockFrame

\* the last reader has left: c.mu.Lock() returns
WriterAcquire(t) ==
    /\ thr[t].at = "pending"
    /\ CanAcquire(mu, "W")
    /\ mu' = Acquire(mu, "W")
    /\ thr' = [thr EXCEPT ![t].at = "locked"]
    /\ UNCHANGED cacheVars
    /\ UNCHANGED lockFrame

\* the deferred c.mu.RUnlock(), and the deferred c.mu.Unlock(), which hands
\* the lock to the readers blocked behind the writer
UnlockAndWake(t) ==
    /\ thr[t].at = "done"
    /\ IF LockKind(thr[t].method) = "R"
       THEN /\ mu' = Release(mu, "R")
            /\ thr' = [thr EXCEPT ![t] = NoThr]
       ELSE /\ mu' = [readerCount |->
                        Cardinality({u \in Threads : thr[u].at = "rblocked"}),
                      w |-> FALSE]
            /\ thr' = [u \in Threads |->
                         IF u = t THEN NoThr
                         ELSE IF thr[u].at = "rblocked"
                         THEN [thr[u] EXCEPT !.at = "locked"]
                         ELSE thr[u]]
    /\ UNCHANGED cacheVars
    /\ UNCHANGED lockFrame

DeferredUnlockCallersOnly(t) ==
    /\ t \in Callers
    /\ UnlockAndWake(t)

DeferredUnlock(t) == UnlockAndWake(t)

\* the steps goroutine t can take once it has called the lock
ThreadStep(t) ==
    \/ WriterAcquire(t)
    \/ GetBody(t)
    \/ SetEvict(t)
    \/ SetInsert(t)
    \/ t = "reaper" /\ SweepBody
    \/ DeferredUnlock(t)

\* the select of cleanupExpired is reached only between two sweeps
ReaperReturn ==
    /\ thr["reaper"].at = "idle"
    /\ ReaperStop

\* the callers read and write one key
WaitingKeys == {"a"}
WaitingMethods == {"Get", "Set"}

WaitingNext ==
    \/ \E t \in Callers, m \in WaitingMethods, k \in WaitingKeys :
          CallerEnter(t, m, k)
    \/ ReaperEnter
    \/ \E t \in Threads : WriterTurn(t)
    \/ \E t \in Threads : WriterAcquire(t)
    \/ \E t \in Callers : GetBody(t)
    \/ \E t \in Callers : SetEvict(t)
    \/ \E t \in Callers : SetInsert(t)
    \/ SweepBody
    \/ \E t \in Threads : DeferredUnlock(t)
    \/ stopChan = "open" /\ Close
    \/ ReaperStart
    \/ ReaperReturn
    \/ Tick

\* Fair scheduling: a goroutine that can take a step takes it, and a writer
\* waiting at the writers' mutex is not passed over for ever (sync.Mutex
\* hands the mutex to a waiter that has waited too long).
SpecWaiting ==
    /\ Init
    /\ [][WaitingNext]_vars
    /\ \A t \in Threads : WF_vars(ThreadStep(t))
    /\ \A t \in Threads : SF_vars(WriterTurn(t))

\* ------------------------------------------------ the functions on their own
\* The pure functions of the service, the client and the handlers, each
\* applied once to an argument drawn from a set that covers its branches.

\* transactions: one per selector, an upper-case selector, one of 9
\* characters (a selector cut short) and one with no known selector
ClassifyTransactions == {
    <<"0", "x", "a", "2", "2", "c", "b", "4", "6", "5">>,
    <<"0", "x", "0", "9", "5", "e", "a", "7", "b", "3", "f", "f">>,
    <<"0", "x", "2", "3", "b", "8", "7", "2", "d", "d", "0", "0">>,
    <<"0", "x", "A", "2", "2", "C", "B", "4", "6", "5", "0", "0">>,
    <<"0", "x", "a", "2", "2", "c", "b", "4", "6">>,
    <<"0", "x", "d", "e", "a", "d", "b", "e", "e", "f", "0", "0">>}

\* fee recipients: the first relay in lower and in mixed case, the second in
\* upper case, the third, the first with a character appended, and a stranger
ClassifyFeeRecipients == {
    <<"0", "x", "9", "5", "2", "2", "2", "2", "9", "0", "d", "d", "7",
      "2", "7", "8", "a", "a", "3", "d", "d", "d", "3", "8", "9", "c",
      "c", "1", "e", "1", "d", "1", "6", "5", "c", "c", "4", "b", "a",
      "f", "e", "5">>,
    <<"0", "x", "9", "5", "2", "2", "2", "2", "9", "0", "D", "D", "7",
      "2", "7", "8", "A", "a", "3", "D", "d", "d", "3", "8", "9", "C",
      "c", "1", "E", "1", "d", "1", "6", "5", "C", "C", "4", "B", "A",
      "f", "e", "5">>,
    <<"0", "X", "3", "8", "8", "C", "8", "1", "8", "C", "A", "8", "B",
      "9", "2", "5", "1", "B", "3", "9", "3", "1", "3", "1", "C", "0",
      "8", "A", "7", "3", "6", "A", "6", "7", "C", "C", "B", "1", "9",
      "2", "9", "7">>,
    <<"0", "x", "8", "b", "5", "d", "7", "a", "6", "0", "5", "5", "e",
      "5", "4", "e", "3", "6", "e", "8", "a", "6", "e", "2", "a", "1",
      "2", "8", "c", "5", "d", "0", "f", "3", "8", "f", "4", "e", "5",
      "e", "8", "3">>,
    <<"0", "x", "9", "5", "2", "2", "2", "2", "9", "0", "d", "d", "7",
      "2", "7", "8", "a", "a", "3", "d", "d", "d", "3", "8", "9", "c",
      "c", "1", "e", "1", "d", "1", "6", "5", "c", "c", "4", "b", "a",
      "f", "e", "5", "0">>,
    <<"0", "x", "1", "2">>}

SeqsUpTo2(S) ==
    {<<>>} \cup {<<a>> : a \in S} \cup {<<a, b>> : a \in S, b \in S}

\* a block without execution payload, and every payload over the sets above
ClassifyBlocks ==
    {NoBlock} \cup
    [hasPayload : {TRUE}, feeRecipient : ClassifyFeeRecipients,
     transactions : SeqsUpTo2(ClassifyTransactions)]

\* the errors a handler can be given: the sentinels, what the two resolutions
\* return on each failure path, and the same under further context
ServiceErrors ==
    {<<ErrSlotNotFound>>, <<ErrFutureSlot>>, <<ErrSlotTooFarInFuture>>}
    \cup {Wrap("failed to get current slot", doBeaconRequest(r)) :
            r \in BeaconResponses \ {"ok"}}
    \cup {Wrap("failed to get current slot", <<"current time is before genesis">>)}
    \cup {Wrap("failed to get block", doBeaconRequest(r)) :
            r \in BeaconResponses \ {"ok", "notfound"}}
    \cup {Wrap("failed to get block rewards", doBeaconRequest(r)) :
            r \in BeaconResponses \ {"ok"}}
    \cup {Wrap("failed to get sync committee", doBeaconRequest(r)) :
            r \in BeaconResponses \ {"ok", "notfound"}}
    \cup {Wrap("failed to parse reward", <<"invalid reward format">>)}

HandlerErrors ==
    ServiceErrors
    \cup {<<ErrInvalidSlot>>, <<ErrTimeout>>, <<ErrInternal>>}
    \cup {Wrap("validation failed", <<ErrInvalidSlot>>),
          Wrap("failed to get block", <<ErrTimeout>>)}
    \cup {Wrap("handler", e) : e \in ServiceErrors}

FnArgs ==
    {[fn |-> "determineBlockStatus", block |-> b] : b \in ClassifyBlocks}
    \cup {[fn |-> "handleServiceError", err |-> e] : e \in HandlerErrors}

InitFn ==
    /\ InitProgram
    /\ arg \in FnArgs
    /\ res = NoRes
    /\ svc = MainService
    /\ node = AnyNode

fnFrame == <<cacheVars, pc, call, cur, blk, out, trace, last, arg, lockVars,
             http, req, svc, node, mw>>

CallDetermineBlockStatus ==
    /\ arg.fn = "determineBlockStatus"
    /\ res = NoRes
    /\ res' = [fn |-> arg.fn, status |-> determineBlockStatus(arg.block)]
    /\ UNCHANGED fnFrame

CallHandleServiceError ==
    /\ arg.fn = "handleServiceError"
    /\ res = NoRes
    /\ LET r == handleServiceError(arg.err)
       IN res' = [fn |-> arg.fn, status |-> r.status, body |-> r.body]
    /\ UNCHANGED fnFrame

FnNext ==
    \/ CallDetermineBlockStatus
    \/ CallHandleServiceError

SpecFn == InitFn /\ [][FnNext]_vars

\* ======================================================== claims, the cache

\* C1 (as claimed): at every point where no cache method holds the lock the
\* map holds at most maxSize entries.
C1_CapacityInvariant == Cardinality(DOMAIN items) <= maxSize

\* C2 (as claimed): no Get returns found=true for an entry at a time
\* now >= expiresAt, the instant now = expiresAt included.
C2_ExpiryBoundaryInclusive ==
    [][\A k \in CacheKeys :
         (CacheGet(k) /\ k \in DOMAIN items /\ now >= items[k].expiration)
            => ~ret'.found]_vars

\* C2 (amended): no Get returns found=true for an entry at a time
\* now > expiresAt; at the instant now = expiresAt the entry is still returned.
C2_ExpiryStrict ==
    [][\A k \in CacheKeys :
         (ret' # ret /\ CacheGet(k) /\ k \in DOMAIN items)
            => /\ now > items[k].expiration => ~ret'.found
               /\ now = items[k].expiration => ret'.found]_vars

\* C2 witness: a Get has just answered found=false for an entry that is
\* still stored and whose expiresAt has passed.
C2_Witness ==
    /\ ret.op = "Get"
    /\ ~ret.found
    /\ ret.key \in DOMAIN items
    /\ now > items[ret.key].expiration

\* C3: a Get issued more than ttl after the most recent Set of its key
\* returns found=false whether or not a sweep ever ran (the entry of that Set
\* is either still stored, more than ttl old, or gone), and a sweep changes
\* the answer of no Get.
C3_ExpiryCorrectness ==
    /\ [][\A k \in CacheKeys :
            ( /\ ret' # ret
              /\ CacheGet(k)
              /\ \/ k \notin DOMAIN items
                 \/ setAt[k] >= 0 /\ now > setAt[k] + ttl )
               => ~ret'.found]_vars
    /\ [][ReaperSweep =>
            \A k \in CacheKeys : Get(items', k, now') = Get(items, k, now)]_vars

\* C3 witness: the reaper never got to run (no sweep ever), a key was Set more
\* than ttl ago and is still stored, and a Get of it answered found=false.
C3_Witness ==
    /\ reaper = "start"
    /\ ret.op = "Get"
    /\ ~ret.found
    /\ ret.key \in DOMAIN items
    /\ setAt[ret.key] >= 0
    /\ now > setAt[ret.key] + ttl

\* C4 (as claimed): a Set of a new key into a cache that holds maxSize
\* entries removes exactly one entry, one of earliest expiresAt, and then
\* inserts; every other entry is kept.
C4_EvictionChoice ==
    [][\A k \in CacheKeys, v \in CacheValues :
         (CacheSet(k, v) /\ k \notin DOMAIN items
                         /\ Cardinality(DOMAIN items) = maxSize)
            => \E e \in OldestKeys(items) :
                  /\ DOMAIN items' = ((DOMAIN items) \ {e}) \cup {k}
                  /\ \A j \in (DOMAIN items) \ {e} : items'[j] = items[j]]_vars

\* C5 (as claimed): a second Close does not crash the caller.
C5_DoubleCloseSafe == panicked # "close of closed channel"

\* ====================================================== claims, the service

\* C6: on a cache miss with the oracle answering currentSlot, GetBlockReward
\* fails with FutureSlot, having requested neither the block nor its rewards,
\* exactly when slot > currentSlot; with slot <= currentSlot it has issued the
\* block fetch; and FutureSlot is returned in no other case.
C6_BlockRewardBound ==
    \A w \in Workers :
        call[w].op = "block_reward" =>
           /\ cur[w] >= 0 =>
                IF call[w].slot > cur[w]
                THEN /\ pc[w] = "done"
                     /\ out[w] = [value |-> Nil, err |-> <<ErrFutureSlot>>]
                     /\ trace[w] = <<"cache.Get", "GetCurrentSlot">>
                ELSE /\ Len(trace[w]) >= 3
                     /\ trace[w][3] = "GetBlockBySlot"
                     /\ ~Is(out[w].err, ErrFutureSlot)
           /\ Is(out[w].err, ErrFutureSlot) => cur[w] >= 0

\* C6 witness: the slot right after the current one was refused.
C6_Witness ==
    \E w \in Workers :
        /\ pc[w] = "done"
        /\ call[w].op = "block_reward"
        /\ call[w].slot = cur[w] + 1
        /\ out[w].err = <<ErrFutureSlot>>

\* C7: on a cache miss with the oracle answering currentSlot,
\* GetSyncCommitteeDuties fails with SlotTooFarInFuture, having requested no
\* committee, exactly when slot > currentSlot + 256*32; with
\* slot <= currentSlot + 256*32 it has issued the committee fetch.
C7_SyncDutiesBound ==
    \A w \in Workers :
        call[w].op = "sync_duties" =>
           /\ cur[w] >= 0 =>
                IF call[w].slot > cur[w] + 256 * 32
                THEN /\ pc[w] = "done"
                     /\ out[w] = [value |-> Nil, err |-> <<ErrSlotTooFarInFuture>>]
                     /\ trace[w] = <<"cache.Get", "GetCurrentSlot">>
                ELSE /\ Len(trace[w]) >= 3
                     /\ trace[w][3] = "GetSyncCommittee"
                     /\ ~Is(out[w].err, ErrSlotTooFarInFuture)
           /\ Is(out[w].err, ErrSlotTooFarInFuture) => cur[w] >= 0

\* C7 witness: slot = currentSlot + 256*32 + 1 was refused.
C7_Witness ==
    \E w \in Workers :
        /\ pc[w] = "done"
        /\ call[w].op = "sync_duties"
        /\ call[w].slot = cur[w] + 256 * 32 + 1
        /\ out[w].err = <<ErrSlotTooFarInFuture>>

\* C8: when the block fetch, the reward fetch or the committee fetch answers
\* not-found, the resolution fails with an error IsNotFound accepts and that
\* is neither FutureSlot nor SlotTooFarInFuture; when the fetch fails in
\* another way the error is not not-found.
C8_NotFoundPropagation ==
    [][\A w \in Workers, resp \in BeaconResponses \ {"ok"} :
         ( \/ \E b \in Blocks : BlockReturn(w, resp, b)
           \/ \E t \in Totals : RewardsReturn(w, resp, t)
           \/ \E c \in Committees : CommitteeReturn(w, resp, c) )
         => /\ pc'[w] = "done"
            /\ out'[w].err # <<>>
            /\ ~Is(out'[w].err, ErrFutureSlot)
            /\ ~Is(out'[w].err, ErrSlotTooFarInFuture)
            /\ IsNotFound(out'[w].err) <=> resp = "notfound"]_vars

\* C8 witness: the reward fetch of an in-bounds slot answered not-found and
\* the resolution returned a not-found error.
C8_Witness ==
    \E w \in Workers :
        /\ pc[w] = "done"
        /\ trace[w] = <<"cache.Get", "GetCurrentSlot", "GetBlockBySlot",
                        "GetBlockRewards">>
        /\ IsNotFound(out[w].err)

\* C9: a resolution whose cache check finds its key returns the cached value
\* at once: the only call it issues is the cache Get, and the cache is left
\* as it was.
C9_CacheHitShortCircuit ==
    [][\A w \in Workers, op \in Ops, slot \in Slots :
         (Resolve(w, op, slot) /\ Get(items, cacheKey(op, slot), now).found)
         => /\ pc'[w] = "done"
            /\ out'[w] = [value |-> items[cacheKey(op, slot)].value, err |-> <<>>]
            /\ trace'[w] = <<"cache.Get">>
            /\ items' = items]_vars

\* C9 witness: a block-reward resolution answered from the cache.
C9_Witness ==
    \E w \in Workers :
        /\ pc[w] = "done"
        /\ call[w].op = "block_reward"
        /\ trace[w] = <<"cache.Get">>
        /\ out[w].value.kind = "BlockReward"

\* C10: a resolution started when the latest cache fill was made by a
\* resolution of the same key, no more than ttl ago, returns that resolution's
\* result from the cache, issuing no oracle call and no fetch.
C10_IdempotentReadThrough ==
    [][\A w \in Workers, op \in Ops, slot \in Slots :
         ( /\ Resolve(w, op, slot)
           /\ last.key = cacheKey(op, slot)
           /\ now <= setAt[last.key] + ttl )
         => /\ pc'[w] = "done"
            /\ out'[w] = [value |-> last.value, err |-> <<>>]
            /\ trace'[w] = <<"cache.Get">>]_vars

\* C10 witness: the second of two resolutions of one slot, the first of which
\* filled the cache, returned the first one's result from the cache.
C10_Witness ==
    \E w \in Workers :
        /\ pc[w] = "done"
        /\ last.key = cacheKey(call[w].op, call[w].slot)
        /\ trace[w] = <<"cache.Get">>
        /\ out[w] = [value |-> last.value, err |-> <<>>]

\* C11: every resolution that succeeds through the miss path has stored its
\* result under its own key when it returns: a Get of "block_reward:"+slot
\* (resp. "sync_duties:"+slot) at that instant yields exactly the returned
\* result, and the cache Set is the last call the resolution issued.
C11_CacheFillOnSuccess ==
    [][\A w \in Workers :
         ( /\ pc[w] \in {"rewards", "committee"}
           /\ pc'[w] = "done"
           /\ out'[w].err = <<>> )
         => /\ out'[w].value.kind = ResultKind(call[w].op)
            /\ Get(items', cacheKey(call[w].op, call[w].slot), now')
                  = [value |-> out'[w].value, found |-> TRUE]
            /\ trace'[w][Len(trace'[w])] = "cache.Set"]_vars

\* C11 witness: a block with a transaction of selector 0xa22cb465 and total
\* "10" was resolved through the miss path to {mev, 10}, and that value is in
\* the cache under the resolution's key.
C11_Witness ==
    \E w \in Workers :
        /\ pc[w] = "done"
        /\ call[w].op = "block_reward"
        /\ Len(trace[w]) = 5
        /\ out[w] = [value |-> BlockReward("mev", 10), err |-> <<>>]
        /\ Get(items, cacheKey("block_reward", call[w].slot), now)
              = [value |-> BlockReward("mev", 10), found |-> TRUE]

\* ==================================================== claims, the functions

\* the fixed selectors and relay addresses as C12 lists them
C12_Selectors == {
    <<"0", "x", "a", "2", "2", "c", "b", "4", "6", "5">>,
    <<"0", "x", "0", "9", "5", "e", "a", "7", "b", "3">>,
    <<"0", "x", "2", "3", "b", "8", "7", "2", "d", "d">>}
C12_Relays == {
    <<"0", "x", "9", "5", "2", "2", "2", "2", "9", "0", "d", "d", "7",
      "2", "7", "8", "a", "a", "3", "d", "d", "d", "3", "8", "9", "c",
      "c", "1", "e", "1", "d", "1", "6", "5", "c", "c", "4", "b", "a",
      "f", "e", "5">>,
    <<"0", "x", "3", "8", "8", "c", "8", "1", "8", "c", "a", "8", "b",
      "9", "2", "5", "1", "b", "3", "9", "3", "1", "3", "1", "c", "0",
      "8", "a", "7", "3", "6", "a", "6", "7", "c", "c", "b", "1", "9",
      "2", "9", "7">>,
    <<"0", "x", "8", "b", "5", "d", "7", "a", "6", "0", "5", "5", "e",
      "5", "4", "e", "3", "6", "e", "8", "a", "6", "e", "2", "a", "1",
      "2", "8", "c", "5", "d", "0", "f", "3", "8", "f", "4", "e", "5",
      "e", "8", "3">>}

\* str starts with sel, character by character
C12_StartsWith(str, sel) ==
    \A i \in 1..Len(sel) : i <= Len(str) /\ str[i] = sel[i]

\* the decision procedure of C12
C12_Reference(block) ==
    IF ~block.hasPayload \/ block.transactions = <<>> THEN "vanilla"
    ELSE IF \E i \in 1..Len(block.transactions), sel \in C12_Selectors :
               C12_StartsWith(block.transactions[i], sel) THEN "mev"
    ELSE IF ToLower(block.feeRecipient) \in C12_Relays THEN "mev"
    ELSE "vanilla"

\* C12: determineBlockStatus returns vanilla for a block with no execution
\* payload or no transaction, else mev when some transaction starts with a
\* fixed selector, else mev when the lower-cased fee recipient is a fixed
\* relay address, else vanilla; the result is always mev or vanilla.
C12_ClassificationProcedure ==
    (res # NoRes /\ res.fn = "determineBlockStatus")
    => /\ res.status \in {"mev", "vanilla"}
       /\ res.status = C12_Reference(arg.block)

\* C12 witness: a block whose second transaction alone carries a selector,
\* and whose fee recipient is no relay, was classified mev.
C12_Witness ==
    /\ res # NoRes
    /\ res.fn = "determineBlockStatus"
    /\ Len(arg.block.transactions) = 2
    /\ ~isMEVTransaction(arg.block.transactions[1])
    /\ isMEVTransaction(arg.block.transactions[2])
    /\ ToLower(arg.block.feeRecipient) \notin C12_Relays
    /\ res.status = "mev"

\* the first relay address of C13
C13_Relay ==
    <<"0", "x", "9", "5", "2", "2", "2", "2", "9", "0", "d", "d", "7",
      "2", "7", "8", "a", "a", "3", "d", "d", "d", "3", "8", "9", "c",
      "c", "1", "e", "1", "d", "1", "6", "5", "c", "c", "4", "b", "a",
      "f", "e", "5">>

\* C13 (as claimed): every block whose payload's fee recipient is
\* 0x95222290dd7278aa3ddd389cc1e1d165cc4bafe5 in any letter case is
\* classified mev, whether or not a transaction matches a selector.
C13_FeeRecipientAlways ==
    ( /\ res # NoRes
      /\ res.fn = "determineBlockStatus"
      /\ arg.block.hasPayload
      /\ ToLower(arg.block.feeRecipient) = C13_Relay )
    => res.status = "mev"

\* C13 (amended): every block with at least one transaction whose payload's
\* fee recipient is that address in any letter case is classified mev, also
\* when no transaction matches a selector; with no transaction at all the
\* block is vanilla whatever its fee recipient.
C13_FeeRecipientSignal ==
    ( /\ res # NoRes
      /\ res.fn = "determineBlockStatus"
      /\ arg.block.hasPayload
      /\ ToLower(arg.block.feeRecipient) = C13_Relay )
    => res.status = IF arg.block.transactions = <<>> THEN "vanilla" ELSE "mev"

\* C13 witness: a block with the address in mixed case and transactions of
\* which none matches a selector was classified mev.
C13_Witness ==
    /\ res # NoRes
    /\ res.fn = "determineBlockStatus"
    /\ arg.block.hasPayload
    /\ arg.block.feeRecipient # C13_Relay
    /\ ToLower(arg.block.feeRecipient) = C13_Relay
    /\ arg.block.transactions # <<>>
    /\ \A i \in DOMAIN arg.block.transactions :
          ~isMEVTransaction(arg.block.transactions[i])
    /\ res.status = "mev"

\* ============================================ claims, the service (continued)

\* str is a non-negative base-10 integer: one or more decimal digits
C14_IsUnsignedDecimal(str) ==
    /\ str # <<>>
    /\ \A i \in DOMAIN str : IsDigit(str[i])

\* C14 (as claimed): when the reward fetch answers with a total string, the
\* resolution returns and caches a BlockReward whose reward is the
\* non-negative base-10 value of the string if the string is a non-negative
\* base-10 integer; for any other string it fails with an error of the
\* internal category, returns no result and leaves the cache as it was.
C14_RewardParsing ==
    [][\A w \in Workers, t \in Totals :
         RewardsReturn(w, "ok", t)
         => IF C14_IsUnsignedDecimal(t)
            THEN /\ out'[w].err = <<>>
                 /\ out'[w].value.reward = DecimalValue(t)
                 /\ out'[w].value.reward >= 0
                 /\ items'[cacheKey(call[w].op, call[w].slot)].value = out'[w].value
            ELSE /\ out'[w].err # <<>>
                 /\ ~IsNotFound(out'[w].err)
                 /\ ~IsBadRequest(out'[w].err)
                 /\ ~IsTimeout(out'[w].err)
                 /\ out'[w].value = Nil
                 /\ items' = items]_vars

\* ============================================== claims, the cache's lock

\* the goroutines inside a method that reads the map, and inside one that
\* mutates it
C15_Readers == {t \in Threads : thr[t].at # "idle" /\ thr[t].method = "Get"}
C15_Writers == {t \in Threads : thr[t].at # "idle" /\ thr[t].method # "Get"}

\* C15: no state is reachable in which a reader and a writer, or two
\* writers, are inside the map at the same time, and every step that changes
\* the entry map (Set's eviction scan and insertion, Delete, Clear, a reaper
\* sweep) is made by the one goroutine holding the exclusive lock.
C15_LockDiscipline ==
    /\ [](/\ Cardinality(C15_Writers) <= 1
          /\ C15_Writers # {} => C15_Readers = {})
    /\ [][items' # items =>
            /\ mu.w /\ mu.readerCount = 0
            /\ \E t \in C15_Writers :
                  /\ thr'[t].at # thr[t].at
                  /\ thr[t].method \in {"Set", "Delete", "Clear", "removeExpired"}]_vars

\* C15 witness: two Gets hold the read lock at the same time.
C15_Witness ==
    /\ mu = [readerCount |-> 2, w |-> FALSE]
    /\ C15_Readers = Callers
    /\ \A t \in Callers : thr[t].at = "locked"

\* ============================================ claims, concurrent requests

\* worker w has returned a result it obtained through the miss path
C16_ResolvedByMiss(w) ==
    /\ pc[w] = "done"
    /\ out[w].err = <<>>
    /\ trace[w] # <<>>
    /\ trace[w][Len(trace[w])] = "cache.Set"

\* C16: resolutions are not deduplicated.  A resolution that misses the
\* cache goes on to the oracle and the fetch whatever the other worker is
\* doing; each successful one writes its own result under the key; and when
\* two resolutions of one slot have both returned through the miss path the
\* key's one entry, while it is stored, carries the value of the later Set.
C16_NoSingleFlight ==
    /\ [][\A w \in Workers, op \in Ops, slot \in ConcurrentSlots :
            (Resolve(w, op, slot) /\ ~Get(items, cacheKey(op, slot), now).found)
            => /\ pc'[w] = "oracle"
               /\ trace'[w] = <<"cache.Get", "GetCurrentSlot">>]_vars
    /\ [][\A w \in Workers :
            (~C16_ResolvedByMiss(w) /\ C16_ResolvedByMiss(w)')
            => /\ items'[cacheKey(call[w].op, call[w].slot)].value = out'[w].value
               /\ last' = [key |-> cacheKey(call[w].op, call[w].slot),
                            value |-> out'[w].value]]_vars
    /\ [](\A w \in Workers, v \in Workers :
            ( /\ w # v
              /\ call[w] = call[v]
              /\ C16_ResolvedByMiss(w)
              /\ C16_ResolvedByMiss(v) )
            => /\ last.key = cacheKey(call[w].op, call[w].slot)
               /\ last.value \in {out[w].value, out[v].value}
               /\ last.key \in DOMAIN items
                    => items[last.key].value = last.value)

\* C16 witness: two resolutions of one uncached in-bounds slot have both
\* fetched the block, with different answers, and both await the rewards.
C16_Witness ==
    /\ call["w1"] = call["w2"]
    /\ pc["w1"] = "rewards"
    /\ pc["w2"] = "rewards"
    /\ blk["w1"] # blk["w2"]
    /\ cacheKey(call["w1"].op, call["w1"].slot) \notin DOMAIN items

\* ============================================ claims, deadlines and the oracle

\* C17 (as claimed): when the deadline fires during the genesis fetch or a
\* data fetch, the resolution ends with no result and an error that IsTimeout
\* classifies as timeout and that is neither not-found nor bad-request.
C17_DeadlineIsTimeout ==
    [][\A w \in Workers :
         ( \/ \E g \in GenesisTimes : OracleReturn(w, "deadline", g)
           \/ \E b \in Blocks : BlockReturn(w, "deadline", b)
           \/ \E t \in Totals : RewardsReturn(w, "deadline", t)
           \/ \E c \in Committees : CommitteeReturn(w, "deadline", c) )
         => /\ pc'[w] = "done"
            /\ out'[w].value = Nil
            /\ out'[w].err # <<>>
            /\ ~IsNotFound(out'[w].err)
            /\ ~IsBadRequest(out'[w].err)
            /\ IsTimeout(out'[w].err)]_vars

\* the slot of C18: the s with 12*s <= elapsed < 12*(s+1)
C18_Floor(elapsed) ==
    CHOOSE s \in 0..elapsed : 12 * s <= elapsed /\ elapsed < 12 * (s + 1)

\* C18: when the genesis fetch succeeds with a decimal genesis time and
\* now >= genesisTime, the oracle's slot is floor((now - genesisTime) / 12),
\* 0 at now = genesisTime; when now < genesisTime or the genesis fetch fails
\* (or its genesis time is no number) the oracle returns an error and no
\* slot, and the resolution fails with no result, no data fetch and no cache
\* write.
C18_CurrentSlotOracle ==
    [][\A w \in Workers, resp \in BeaconResponses, g \in GenesisTimes :
         (pc'[w] # pc[w] /\ OracleReturn(w, resp, g))
         => IF /\ resp = "ok"
               /\ \A i \in DOMAIN g : IsDigit(g[i])
               /\ UnixBase + now >= DecimalValue(g)
            THEN /\ cur'[w] = C18_Floor(UnixBase + now - DecimalValue(g))
                 /\ UnixBase + now = DecimalValue(g) => cur'[w] = 0
                 /\ ~Is(out'[w].err, "failed to get current slot")
            ELSE /\ cur'[w] = -1
                 /\ pc'[w] = "done"
                 /\ out'[w].value = Nil
                 /\ out'[w].err # <<>>
                 /\ out'[w].err[1] = "failed to get current slot"
                 /\ trace'[w] = <<"cache.Get", "GetCurrentSlot">>
                 /\ items' = items]_vars

\* C18 witness: the oracle answered slot 0, less than 12 seconds after
\* genesis, and the resolution went on from there.
C18_Witness ==
    \E w \in Workers :
        /\ cur[w] = 0
        /\ pc[w] = "done"
        /\ out[w].err = <<ErrFutureSlot>>

\* ================================================ claims, the error categories

\* the domain error kinds of C19 and the category of each
C19_Kinds ==
    {ErrSlotNotFound, ErrFutureSlot, ErrSlotTooFarInFuture, ErrInvalidSlot,
     ErrTimeout}

C19_Category(kind) ==
    CASE kind = ErrSlotNotFound -> 404
      [] kind \in {ErrFutureSlot, ErrSlotTooFarInFuture, ErrInvalidSlot} -> 400
      [] kind = ErrTimeout -> 408
      [] OTHER -> 500

\* the kind of an error: what lies at the bottom of its chain
C19_Kind(err) == err[Len(err)]

\* C19: handleServiceError puts every error in exactly one category, the one
\* of its kind (SlotNotFound 404; FutureSlot, SlotTooFarInFuture, InvalidSlot
\* 400; timeout 408; anything else 500); wrapping the error with context
\* leaves the category as it was; and on the domain error kinds IsNotFound,
\* IsBadRequest and IsTimeout are pairwise exclusive.
C19_ErrorCategories ==
    (res # NoRes /\ res.fn = "handleServiceError")
    => /\ res.status = C19_Category(C19_Kind(arg.err))
       /\ handleServiceError(Wrap("context", arg.err)).status = res.status
       /\ Cardinality({p \in {"nf", "br", "to"} :
               \/ p = "nf" /\ IsNotFound(arg.err)
               \/ p = "br" /\ IsBadRequest(arg.err)
               \/ p = "to" /\ IsTimeout(arg.err)})
            = IF C19_Kind(arg.err) \in C19_Kinds THEN 1 ELSE 0

\* C19 witness: a not-found error under two layers of context was answered
\* 404.
C19_Witness ==
    /\ res # NoRes
    /\ res.fn = "handleServiceError"
    /\ Len(arg.err) = 3
    /\ arg.err[3] = ErrSlotNotFound
    /\ res.status = 404

\* ==================================================== claims, the handlers

\* the slot segment of a request path: what follows the prefix, less one
\* closing slash
C20_Segment(path, op) ==
    LET rest == SubSeq(path, Len(Prefix(op)) + 1, Len(path))
    IN IF rest # <<>> /\ rest[Len(rest)] = "/"
       THEN SubSeq(rest, 1, Len(rest) - 1) ELSE rest

\* seg is a decimal unsigned 64-bit integer
C20_IsDecimalUint64(seg) ==
    /\ seg # <<>>
    /\ \A i \in DOMAIN seg : IsDigit(seg[i])
    /\ FitsUint64(seg)

\* C20: a request whose slot segment is empty or is no decimal unsigned
\* 64-bit integer is answered 400 "invalid slot number" with the service not
\* invoked (no cache access, no collaborator call, no state of the service
\* touched); a request with a valid slot invokes the service once, with that
\* value; and the service is entered by no other step.
C20_SlotInputValidation ==
    /\ [][\A w \in Workers, op \in Ops, seg \in SlotSegments :
            (http'[w].path = Prefix(op) \o seg /\ Handle(w, op, Prefix(op) \o seg))
            => IF C20_IsDecimalUint64(C20_Segment(Prefix(op) \o seg, op))
               THEN /\ http'[w].calls = 1
                    /\ http'[w].status # 400
                    /\ call'[w] = [op |-> op,
                                   slot |-> DecimalValue(C20_Segment(Prefix(op) \o seg, op))]
                    /\ trace'[w][1] = "cache.Get"
               ELSE /\ http'[w].status = 400
                    /\ http'[w].body = <<"invalid slot number">>
                    /\ http'[w].calls = 0
                    /\ UNCHANGED <<items, ret, pc, call, cur, blk, out, trace,
                                   last>>]_vars
    /\ [][\A w \in Workers :
            (call'[w] # call[w] /\ call'[w] # NoCall)
            => /\ pc[w] = "idle"
               /\ http'[w].calls = 1
               /\ \E op \in Ops, seg \in SlotSegments :
                     /\ http'[w].path = Prefix(op) \o seg
                     /\ Handle(w, op, Prefix(op) \o seg)]_vars
    /\ [](\A w \in Workers : http[w].calls <= 1)

\* C20 witness: the path "/blockreward/" followed by the digits of 1<<64 was
\* answered 400 "invalid slot number" and the handler returned without a
\* call of the service.
C20_Witness ==
    \E w \in Workers :
        /\ http[w].path = Prefix("block_reward") \o TrimZeros(
              <<"0", "1", "8", "4", "4", "6", "7", "4", "4", "0", "7", "3", "7",
                "0", "9", "5", "5", "1", "6", "1", "6">>)
        /\ http[w].status = 400
        /\ http[w].body = <<ErrInvalidSlot>>
        /\ http[w].calls = 0
        /\ pc[w] = "idle"
        /\ trace[w] = <<>>

\* err is an error of none of the three categories that are reported as
\* they are
C21_Internal(err) ==
    /\ err # <<>>
    /\ ~IsNotFound(err)
    /\ ~IsBadRequest(err)
    /\ ~IsTimeout(err)

\* C21: when the service returns an error that is neither not-found,
\* bad-request nor timeout, the handler answers status 500 with the body
\* "internal server error" and no layer of the error's text in it; the
\* response is the same whichever internal error it was (the one any other
\* internal error is answered with), while the error itself goes to the log.
C21_NoLeakage ==
    [][\A w \in Workers :
         (Respond(w) /\ C21_Internal(out[w].err))
         => /\ http'[w].status = 500
            /\ http'[w].body = <<"internal server error">>
            /\ \A i \in DOMAIN out[w].err, j \in DOMAIN http'[w].body :
                  http'[w].body[j] # out[w].err[i]
            /\ \A e \in HandlerErrors :
                  C21_Internal(e) =>
                     /\ handleServiceError(e).status = http'[w].status
                     /\ handleServiceError(e).body = http'[w].body
            /\ http'[w].logged = out[w].err]_vars

\* C21 witness: a reward fetch cut by the deadline and a total that is no
\* number are two internal errors; the first has been answered 500
\* "internal server error".
C21_Witness ==
    \E w \in Workers :
        /\ http[w].status = 500
        /\ http[w].body = <<ErrInternal>>
        /\ http[w].logged = <<"failed to get block rewards", "request failed",
                              "context deadline exceeded">>
        /\ C21_Internal(<<"failed to parse reward", "invalid reward format">>)

\* ============================================ claims, the cache (continued)

\* the step is a call Set(k, .): of the steps of the cache, Get, Delete, Clear
\* and Close leave their own name in ret, and the steps of the reaper and of
\* the clock change reaper, tickPending, panicked or now
C22_BySet(k) ==
    /\ ret'.op = "Set"
    /\ ret'.key = k
    /\ UNCHANGED <<now, reaper, tickPending, panicked>>

\* C22: a Set(k, v) at time t leaves k's entry as (v, t + ttl) whatever k held
\* before; a stored entry changes only by a Set of its key, and while its
\* expiresAt has not passed it leaves the map only by Delete(k), Clear or the
\* eviction of a Set of another key into a full cache; so every Get(k) before
\* t + ttl of an entry still stored returns (v, true).  A key enters the map
\* by a Set of it only, and a Get of an absent key returns found=false.
C22_SetGetRoundTrip ==
    /\ [][\A k \in CacheKeys :
            C22_BySet(k)
            => /\ k \in DOMAIN items'
               /\ items'[k].expiration = now + ttl
               /\ \A v \in CacheValues :
                     items'[k].value = v \/ ~CacheSet(k, v)]_vars
    /\ [](\A k \in DOMAIN items :
            setAt[k] >= 0 /\ items[k].expiration = setAt[k] + ttl)
    /\ [][items' # items => \A k \in CacheKeys :
            /\ (k \in DOMAIN items' /\ (k \in DOMAIN items => items'[k] # items[k]))
                  => C22_BySet(k)
            /\ (k \in DOMAIN items /\ k \notin DOMAIN items'
                                    /\ now <= items[k].expiration)
                  => \/ CacheDelete(k)
                     \/ CacheClear
                     \/ /\ Cardinality(DOMAIN items) >= maxSize
                        /\ \E j \in CacheKeys \ {k} : C22_BySet(j)]_vars
    /\ [][\A k \in CacheKeys :
            (ret' # ret /\ CacheGet(k))
            => IF k \in DOMAIN items /\ now < setAt[k] + ttl
               THEN /\ ret'.found
                    /\ ret'.value = items[k].value
               ELSE k \notin DOMAIN items => ~ret'.found /\ ret'.value = Nil]_vars

\* C22 witness: a Get issued after the Set of its key and before the entry's
\* expiresAt returned the stored value.
C22_Witness ==
    /\ ret.op = "Get"
    /\ ret.found
    /\ ret.key \in DOMAIN items
    /\ ret.value = items[ret.key].value
    /\ setAt[ret.key] < now
    /\ now < setAt[ret.key] + ttl

\* C23: when Delete(k) returns, k is absent and a Get(k) at that instant
\* would return found=false, and every other entry is as it was; k stays
\* absent until a Set(k); a Delete of an absent key leaves the map as it was;
\* when Clear returns the map is empty.
C23_SynchronousRemoval ==
    /\ [][\A k \in CacheKeys :
            (ret'.op = "Delete" /\ ret'.key = k /\ CacheDelete(k))
            => /\ k \notin DOMAIN items'
               /\ ~Get(items', k, now').found
               /\ DOMAIN items' = (DOMAIN items) \ {k}
               /\ \A j \in (DOMAIN items) \ {k} : items'[j] = items[j]
               /\ k \notin DOMAIN items => items' = items]_vars
    /\ [][\A k \in CacheKeys :
            (k \notin DOMAIN items /\ k \in DOMAIN items')
            => \E v \in CacheValues : CacheSet(k, v)]_vars
    /\ [][(ret'.op = "Clear" /\ CacheClear)
            => /\ DOMAIN items' = {}
               /\ \A k \in CacheKeys : ~Get(items', k, now').found]_vars

\* C23 witness: a Delete has returned in a cache of capacity above one; its
\* key is absent and another entry, set before, is still stored.
C23_Witness ==
    /\ ret.op = "Delete"
    /\ ret.key \notin DOMAIN items
    /\ maxSize > 1
    /\ \E j \in DOMAIN items : j # ret.key /\ setAt[j] < now

\* C24: once Close has been called (and the process has not crashed on a
\* second Close) the reaper goroutine eventually terminates; a terminated
\* reaper stays terminated and sweeps no more (no step after it removes an
\* entry on the reaper's behalf, and its ticker is stopped); before Close the
\* reaper does not terminate, every tick delivered to the running reaper is
\* eventually taken, and while the cache is open it is a sweep that takes it.
C24_CloseStopsReaper ==
    /\ (stopChan = "closed") ~> (reaper = "done" \/ panicked # "")
    /\ [][reaper = "done"
            => /\ reaper' = "done"
               /\ ~ReaperSweep
               /\ ~tickPending' /\ nextTick' = -1]_vars
    /\ [](stopChan = "open" => reaper # "done")
    /\ (reaper = "loop" /\ tickPending /\ stopChan = "open")
          ~> (~tickPending \/ panicked # "")
    /\ [][(reaper = "loop" /\ tickPending /\ ~tickPending' /\ stopChan = "open")
            => ReaperSweep]_vars

\* C24 witness: the cache was closed after time had passed, and the reaper
\* has terminated, leaving behind an entry whose expiresAt has passed.
C24_Witness ==
    /\ stopChan = "closed"
    /\ reaper = "done"
    /\ panicked = ""
    /\ \E k \in DOMAIN items : now > items[k].expiration

\* ============================================ claims, the sync committee

\* the first slot of the sync-committee period of slot, counted in whole
\* periods of 256 * 32 slots
C25_PeriodStart(slot) == slot - (slot % (256 * 32))

\* slots of the period of slot: its first and last, the slot itself, and the
\* slots an epoch before and after when they are of the period
C25_SamePeriod(slot) ==
    {s \in {C25_PeriodStart(slot), C25_PeriodStart(slot) + 256 * 32 - 1, slot,
             slot - 32, slot + 32} :
        s >= 0 /\ C25_PeriodStart(s) = C25_PeriodStart(slot)}

\* C25: when GetSyncCommitteeDuties(slot) passes the bounds check, the
\* request it makes is for the committee of state ((slot / 32) / 256) * 256 *
\* 32, the first slot of the slot's period; a request for any other slot of
\* that period would name the same state, and one for a slot of another
\* period another; and when the fetch succeeds the result's validators are
\* the list the beacon node sent, in its order.
C25_SyncCommitteeState ==
    /\ [](\A w \in Workers :
            pc[w] = "committee"
            => /\ req[w] = "states/"
                     \o ToString(((call[w].slot \div 32) \div 256) * 256 * 32)
                     \o "/sync_committees"
               /\ req[w] = "states/" \o ToString(C25_PeriodStart(call[w].slot))
                                     \o "/sync_committees"
               /\ \A s \in C25_SamePeriod(call[w].slot) :
                     SyncCommitteeEndpoint(s) = req[w]
               /\ \A s \in Slots :
                     SyncCommitteeEndpoint(s) = req[w]
                        <=> C25_PeriodStart(s) = C25_PeriodStart(call[w].slot))
    /\ [][\A w \in Workers, c \in Committees :
            (pc[w] = "committee" /\ CommitteeReturn(w, "ok", c))
            => /\ out'[w].err = <<>>
               /\ out'[w].value.validators = c
               /\ req'[w] = req[w]]_vars

\* C25 witness: the duties of slot 2 + 256*32, of the second period, were
\* requested from state 8192 and returned the beacon node's two validators.
C25_Witness ==
    \E w \in Workers :
        /\ pc[w] = "done"
        /\ call[w] = [op |-> "sync_duties", slot |-> 8194]
        /\ req[w] = "states/8192/sync_committees"
        /\ out[w].err = <<>>
        /\ out[w].value.validators = <<"0xvalidator1", "0xvalidator2">>

\* ========================================== claims, the validation errors

\* C26 (as claimed): every error parseSlotFromPath returns is a
\* ValidationError carrying the field name and the raw value, above its
\* cause, and the chain of causes reaches InvalidSlot, so that IsBadRequest
\* holds for the error.  (errors.Is passes over the ValidationError layer,
\* which is no sentinel, to its causes.)
C26_ValidationErrors ==
    [][\A w \in Workers, op \in Ops, seg \in SlotSegments :
         ( /\ http'[w].path = Prefix(op) \o seg
           /\ Handle(w, op, Prefix(op) \o seg)
           /\ http'[w].calls = 0 )
         => LET err == http'[w].logged
            IN /\ err = parseSlotFromPath(Prefix(op) \o seg, Prefix(op)).err
               /\ Len(err) >= 2
               /\ err[1] = [field |-> "slot",
                            value |-> TrimSuffix(seg, <<"/">>)]
               /\ IsBadRequest(Tail(err))]_vars

\* ------------------------------------------------------------------ C27
\* C27: NewValidatorService fails with an error exactly when the client or
\* the logger is nil (the client is looked at first) and nothing is served
\* without a built service; built with a nil cache, every resolution, a
\* repeated one too, takes the miss path from the oracle on, its result is
\* returned without a fill, and no cache call is ever made.
C27_NoCacheCall(w) ==
    \A i \in 1..Len(trace[w]) : trace[w][i] \notin {"cache.Get", "cache.Set"}

C27_Construction ==
    /\ [][Construct =>
            /\ svc.ethClient = "nil" =>
                  svc'.state = "failed" /\ svc'.err = <<"ethereum client is required">>
            /\ (svc.ethClient # "nil" /\ svc.logger = "nil") =>
                  svc'.state = "failed" /\ svc'.err = <<"logger is required">>
            /\ (svc.ethClient # "nil" /\ svc.logger # "nil") =>
                  svc'.state = "built" /\ svc'.err = <<>>
            /\ svc'.cache = svc.cache]_vars
    /\ [](svc.state # "built" => \A w \in Workers : pc[w] = "idle" /\ trace[w] = <<>>)
    /\ [][\A w \in Sequential :
            (svc.cache = "nil" /\ pc[w] = "idle" /\ pc'[w] # "idle") =>
               /\ pc'[w] = "oracle"
               /\ trace'[w] = <<"GetCurrentSlot">>
               /\ req'[w] = GenesisEndpoint]_vars
    /\ [](svc.cache = "nil" =>
            /\ items = <<>>
            /\ ret.op = "none"
            /\ last = NoLast
            /\ \A w \in Workers : C27_NoCacheCall(w))

\* a service built without a cache has resolved a block reward, and nothing
\* was stored
C27_Witness ==
    /\ svc.state = "built"
    /\ svc.cache = "nil"
    /\ \E w \in Sequential :
          /\ pc[w] = "done"
          /\ out[w].err = <<>>
          /\ out[w].value # Nil
          /\ trace[w] = <<"GetCurrentSlot", "GetBlockBySlot", "GetBlockRewards">>
    /\ items = <<>>

\* ------------------------------------------------------------------ C28
\* C28: a Set removes an entry under another key only when its own key is
\* not yet present and the cache already holds maxSize entries: an
\* overwriting Set removes no other entry, and a Set into a cache with fewer
\* than maxSize entries removes none.
C28_EvictionOnlyForNewKeys ==
    [][\A k \in CacheKeys :
         C22_BySet(k) =>
            \A j \in DOMAIN items \ {k} :
               j \notin DOMAIN items' =>
                  /\ k \notin DOMAIN items
                  /\ Cardinality(DOMAIN items) >= maxSize]_vars

\* ------------------------------------------------------------------ C29
\* C29: a sweep of the reaper removes exactly the entries whose expiration
\* lies before the time of the sweep; every entry whose expiration has not
\* passed is kept, with its value and its expiration unchanged.
C29_SweepExactness ==
    [][ReaperSweep =>
         /\ DOMAIN items' = {k \in DOMAIN items : items[k].expiration >= now}
         /\ \A k \in DOMAIN items' :
               /\ items'[k].value = items[k].value
               /\ items'[k].expiration = items[k].expiration]_vars

\* the entry the latest call, a Get, found is gone although no caller has
\* acted since: a sweep has removed it, and has kept an entry that had not
\* expired
C29_Witness ==
    /\ ret.op = "Get"
    /\ ret.found
    /\ ret.key \notin DOMAIN items
    /\ \E k \in DOMAIN items : items[k].expiration >= now
    /\ reaper = "loop"

\* ------------------------------------------------------------------ C30
\* C30: under fair scheduling every Get and every Set a caller has entered
\* returns, whether the reaper is idle, has a sweep due, is sweeping, or has
\* ended after Close; and whenever a goroutine is inside a method of the
\* cache, some goroutine inside one can take a step (no deadlock).
C30_InCall(t) == thr[t].at # "idle" /\ thr[t].method \in {"Get", "Set"}

C30_ReaperNeverBlocksCallers ==
    /\ \A t \in Callers : C30_InCall(t) ~> (thr[t].at = "idle")
    /\ []((\E t \in Threads : thr[t].at # "idle") =>
            ENABLED (\E t \in Threads : ThreadStep(t) \/ WriterTurn(t)))

\* a Get and a Set were called while the reaper was sweeping, and wait
C30_Witness ==
    /\ thr["reaper"].at = "locked"
    /\ \E t, u \in Callers :
          /\ thr[t].at = "rblocked" /\ thr[t].method = "Get"
          /\ thr[u].at = "wblocked" /\ thr[u].method = "Set"

\* ------------------------------------------------------------------ C31
\* C31: within one resolution the calls made are a prefix of cache.Get,
\* GetCurrentSlot, the fetches of the operation, cache.Set, each made at most
\* once and as far as the resolution has come; a call that fails ends the
\* resolution with its error and no further call; a resolution that succeeds
\* past the cache check has made every call of the sequence exactly once.
C31_Protocol(op) ==
    IF op = "block_reward"
    THEN <<"cache.Get", "GetCurrentSlot", "GetBlockBySlot", "GetBlockRewards",
           "cache.Set">>
    ELSE <<"cache.Get", "GetCurrentSlot", "GetSyncCommittee", "cache.Set">>

C31_CallsAt(at) ==
    CASE at = "oracle" -> {2}
      [] at \in {"block", "committee"} -> {3}
      [] at = "rewards" -> {4}
      [] at = "done" -> 1..5
      [] OTHER -> {0}

C31_NoInternalRetry ==
    /\ [](\A w \in Workers :
            /\ Len(trace[w]) \in C31_CallsAt(pc[w])
            /\ pc[w] # "idle" =>
                  /\ Len(trace[w]) <= Len(C31_Protocol(call[w].op))
                  /\ trace[w] = SubSeq(C31_Protocol(call[w].op), 1, Len(trace[w]))
            /\ (pc[w] = "done" /\ out[w].err = <<>> /\ Len(trace[w]) > 1) =>
                  trace[w] = C31_Protocol(call[w].op))
    /\ [][\A w \in Workers :
            /\ (pc[w] \notin {"idle", "done"} /\ pc'[w] = "done" /\ out'[w].err # <<>>) =>
                  trace'[w] = trace[w]
            /\ pc[w] = "done" =>
                  /\ pc'[w] \in {"done", "idle"}
                  /\ pc'[w] = "done" => trace'[w] = trace[w] /\ out'[w] = out[w]]_vars

\* the rewards call of a resolution has failed: four calls, none repeated
C31_Witness ==
    \E w \in Sequential :
       /\ pc[w] = "done"
       /\ out[w].err # <<>>
       /\ out[w].err[1] = "failed to get block rewards"
       /\ trace[w] = <<"cache.Get", "GetCurrentSlot", "GetBlockBySlot",
                       "GetBlockRewards">>

\* ------------------------------------------------------------------ C32
\* C32: against a deterministic node whose current slot does not change,
\* what a resolution of (op, slot) returns, value or error, is what the same
\* resolution returns when it runs alone on an empty cache, whichever other
\* resolutions ran before it or run beside it and whatever maxSize is; the
\* others decide only whether it is served from the cache or fetched.
C32_Alone(n, op, slot) ==
    LET r == GetCurrentSlot(n.genesis.resp, n.genesis.time, UnixBase)
        fetched == IF op = "block_reward" THEN doBeaconRequest(n.block[slot].resp)
                   ELSE doBeaconRequest(n.committee[slot].resp)
        rewarded == doBeaconRequest(n.rewards[slot].resp)
        total == parseReward(n.rewards[slot].total)
    IN IF r.err # <<>>
       THEN [value |-> Nil, err |-> Wrap("failed to get current slot", r.err)]
       ELSE IF OutOfBounds(op, slot, r.slot)
       THEN [value |-> Nil, err |-> BoundsError(op)]
       ELSE IF fetched # <<>>
       THEN [value |-> Nil,
             err |-> IF IsNotFound(fetched) THEN <<ErrSlotNotFound>>
                     ELSE Wrap(IF op = "block_reward" THEN "failed to get block"
                               ELSE "failed to get sync committee", fetched)]
       ELSE IF op = "sync_duties"
       THEN [value |-> SyncCommitteeDuties(n.committee[slot].validators),
             err |-> <<>>]
       ELSE IF rewarded # <<>>
       THEN [value |-> Nil, err |-> Wrap("failed to get block rewards", rewarded)]
       ELSE IF total.err # <<>>
       THEN [value |-> Nil, err |-> Wrap("failed to parse reward", total.err)]
       ELSE [value |-> BlockReward(determineBlockStatus(n.block[slot].block),
                                   total.value),
             err |-> <<>>]

C32_FixedCurrentSlot ==
    \A t \in 0..MaxTime :
       GetCurrentSlot(node.genesis.resp, node.genesis.time, UnixBase + t)
         = GetCurrentSlot(node.genesis.resp, node.genesis.time, UnixBase)

C32_Independence ==
    C32_FixedCurrentSlot =>
       \A w \in Workers :
          pc[w] = "done" => out[w] = C32_Alone(node, call[w].op, call[w].slot)

\* with room for one entry, a resolution of slot 2 is served from the cache
\* while the other worker, which resolved another slot in between, is done
C32_Witness ==
    /\ maxSize = 1
    /\ C32_FixedCurrentSlot
    /\ \E w, v \in Workers :
          /\ pc[w] = "done" /\ pc[v] = "done"
          /\ call[w].slot # call[v].slot
          /\ out[w].err = <<>> /\ out[v].err = <<>>
          /\ trace[w] = <<"cache.Get">>
          /\ Len(trace[v]) > 1

\* ------------------------------------------------------------------ C33
\* C33: the step that ends a resolution in an error makes no cache.Set and
\* leaves the cache as it was; a resolution whose key the cache does not
\* return starts at the oracle again; and a block-reward resolution whose
\* slot the oracle's current slot has reached goes on to the fetch.
C33_FailuresNeverCached ==
    /\ [][\A w \in Workers :
            (pc[w] \notin {"idle", "done"} /\ pc'[w] = "done" /\ out'[w].err # <<>>) =>
               /\ items' = items
               /\ setAt' = setAt
               /\ last' = last
               /\ trace'[w] = trace[w]
               /\ \A i \in 1..Len(trace[w]) : trace[w][i] # "cache.Set"]_vars
    /\ [][\A w \in Workers :
            ( /\ pc[w] = "idle"
              /\ pc'[w] # "idle"
              /\ ~Get(items, cacheKey(call'[w].op, call'[w].slot), now).found ) =>
               /\ pc'[w] = "oracle"
               /\ req'[w] = GenesisEndpoint]_vars
    /\ [][\A w \in Workers :
            ( /\ pc[w] = "oracle"
              /\ pc'[w] # "oracle"
              /\ call[w].op = "block_reward"
              /\ cur'[w] >= call[w].slot ) =>
               /\ pc'[w] = "block"
               /\ req'[w] = BlockEndpoint(call[w].slot)]_vars

\* one resolution of a slot was rejected as FutureSlot at current slot 1
\* and stored nothing; a later one of the same slot, at current slot 2,
\* was fetched and stored
C33_Witness ==
    \E w, v \in Workers :
       /\ pc[w] = "done" /\ pc[v] = "done"
       /\ call[w] = call[v]
       /\ call[w].op = "block_reward"
       /\ out[w].err = <<ErrFutureSlot>>
       /\ cur[w] = 1
       /\ out[v].err = <<>>
       /\ cur[v] = 2
       /\ cacheKey(call[v].op, call[v].slot) \in DOMAIN items
       /\ items[cacheKey(call[v].op, call[v].slot)].value = out[v].value

\* ------------------------------------------------------------------ C34
\* C34: a resolution that fails at the oracle, whatever the node answered
\* to the genesis request, returns an error that is not not-found; an error
\* that is not-found comes only from a resolution that has issued the fetch
\* of its slot.
C34_FetchIssued(w) ==
    \E i \in 1..Len(trace[w]) :
       trace[w][i] \in {"GetBlockBySlot", "GetBlockRewards", "GetSyncCommittee"}

C34_OracleFailureNotNotFound ==
    \A w \in Workers :
       (pc[w] = "done" /\ out[w].err # <<>> /\ IsNotFound(out[w].err)) =>
          C34_FetchIssued(w)

\* ------------------------------------------------------------------ C35
\* C35: in a cache only the service writes, every entry under a block-reward
\* key holds a BlockReward and every entry under a sync-duties key holds a
\* SyncCommitteeDuties; the key of a resolution is the key of no other
\* (operation, slot) pair; and the type assertion of a cache hit never panics.
C35_SampleSlots == Slots \cup {0, 1, 12, 21, 8192}

C35_CacheValueTyping ==
    /\ \A op \in Ops, slot \in Slots :
          cacheKey(op, slot) \in DOMAIN items =>
             items[cacheKey(op, slot)].value.kind = ResultKind(op)
    /\ DOMAIN items \subseteq ServiceKeys
    /\ \A w \in Workers, op \in Ops, slot \in C35_SampleSlots :
          (pc[w] # "idle" /\ cacheKey(call[w].op, call[w].slot) = cacheKey(op, slot))
             => call[w].op = op /\ call[w].slot = slot
    /\ panicked # "interface conversion"
    /\ \A w \in Workers :
          (pc[w] = "done" /\ out[w].err = <<>>) =>
             out[w].value.kind = ResultKind(call[w].op)

\* the cache holds a result of either operation, and one has just been
\* served from it
C35_Witness ==
    /\ \E s1 \in Slots, s2 \in Slots :
          /\ cacheKey("block_reward", s1) \in DOMAIN items
          /\ cacheKey("sync_duties", s2) \in DOMAIN items
    /\ \E w \in Sequential :
          /\ pc[w] = "done"
          /\ trace[w] = <<"cache.Get">>
          /\ out[w].value.kind = "SyncCommitteeDuties"

\* ------------------------------------------------------------------ C36
\* C36: a request through the Timeout middleware gets one response: all that
\* is sent comes from one of the two goroutines, the handler or the timeout
\* branch, with one status line; once the timeout branch has sent, the
\* handler sends nothing; and the two are never inside a write of the same
\* responseWriter at the same time.
C36_InWrite(at) == at \in {"checked", "header"}

C36_SingleResponse ==
    /\ \A i, j \in 1..Len(mw.sent) : mw.sent[i].by = mw.sent[j].by
    /\ Cardinality({i \in 1..Len(mw.sent) : mw.sent[i].what = "header"}) <= 1
    /\ ~(C36_InWrite(mw.at) /\ C36_InWrite(mw.inner))
    /\ (mw.at = "returned" /\ mw.inner = "closed") => Len(mw.sent) = 2

\* ------------------------------------------------------------------ C37
\* C37: a Set that finds the cache full, and so runs evictOldest on a
\* non-empty map, removes exactly one of the entries before it inserts,
\* whatever their keys; evictOldest on the empty map removes nothing.
C37_EvictionKeyAgnostic ==
    /\ [][\A k \in CacheKeys :
            ( /\ C22_BySet(k)
              /\ DOMAIN items # {}
              /\ Cardinality(DOMAIN items) >= maxSize )
            => \E e \in DOMAIN items :
                  /\ DOMAIN items' = ((DOMAIN items) \ {e}) \cup {k}
                  /\ \A j \in (DOMAIN items) \ {e, k} : items'[j] = items[j]]_vars
    /\ [](evictOldest(<<>>) = {<<>>})

\* ------------------------------------------------------------------ C38
\* C38: with any ttl and maxSize that Config.validate accepts, the reaper of
\* the cache main builds never panics at NewTicker, and once it is in its
\* loop the sweep interval ttl/2 is positive.
C38_SafeConstruction ==
    /\ panicked # "non-positive interval for NewTicker"
    /\ reaper = "loop" => ttl \div 2 > 0

\* ------------------------------------------------------------------ C39
\* the step is a call of the cache method op on key k
C39_By(op, k) ==
    /\ ret'.op = op
    /\ ret'.key = k
    /\ UNCHANGED <<now, reaper, tickPending, panicked>>

\* C39: in a closed cache Get, Set, Delete and Clear keep their contracts: a
\* Get returns an entry exactly when it is stored and its expiresAt has not
\* passed, with its value; a Set stores its key with expiresAt now + ttl,
\* leaves at most maxSize entries and, when the key is new and the cache is
\* full, removes one entry of earliest expiresAt and no other; a Delete leaves
\* its key absent and a Clear leaves the map empty.  Once the reaper has
\* stopped nothing is swept: an entry leaves the map or changes only by a Set,
\* a Delete or a Clear, so an entry whose expiresAt has passed stays stored,
\* and no Get returns it.
C39_CorrectAfterClose ==
    /\ [][\A k \in CacheKeys :
            (stopChan = "closed" /\ ret' # ret /\ CacheGet(k))
            => /\ ret'.found <=> (k \in DOMAIN items /\ now <= items[k].expiration)
               /\ ret'.found => ret'.value = items[k].value
               /\ items' = items]_vars
    /\ [][\A k \in CacheKeys :
            (stopChan = "closed" /\ C22_BySet(k))
            => /\ k \in DOMAIN items'
               /\ items'[k].expiration = now + ttl
               /\ Cardinality(DOMAIN items') <= maxSize
               /\ (k \notin DOMAIN items /\ Cardinality(DOMAIN items) = maxSize)
                  => \E e \in OldestKeys(items) :
                        /\ DOMAIN items' = ((DOMAIN items) \ {e}) \cup {k}
                        /\ \A j \in (DOMAIN items) \ {e} : items'[j] = items[j]]_vars
    /\ [][\A k \in CacheKeys :
            (stopChan = "closed" /\ C39_By("Delete", k) /\ CacheDelete(k))
            => /\ DOMAIN items' = (DOMAIN items) \ {k}
               /\ \A j \in DOMAIN items' : items'[j] = items[j]]_vars
    /\ [][(stopChan = "closed" /\ ret'.op = "Clear" /\ CacheClear)
            => items' = <<>>]_vars
    /\ [][reaper = "done"
            => /\ ~ReaperSweep
               /\ items' # items
                  => /\ ret'.op \in {"Set", "Delete", "Clear"}
                     /\ UNCHANGED <<now, reaper, tickPending, panicked>>]_vars

====
